---- MODULE Spec2Model ----
(***************************************************************************)
(* Balance computation and debt settlement of the expense-splitting        *)
(* backend (dashboard.controller.js, expense.controller.js) and the        *)
(* recurring-bill detector (bill-predictor.utils.js).                      *)
(*                                                                         *)
(* Money is a JavaScript number (IEEE-754 binary64).  A cent value is not  *)
(* a binary fraction, so the arithmetic of the settlement loop is not      *)
(* exact.  A double x near k cents is modelled exactly as the record       *)
(* [c |-> k, e |-> eps] with  x = k/100 + eps * 2^-60/100, that is         *)
(* x = (k * 2^60 + eps) units of 2^-62/25.                                 *)
(***************************************************************************)
EXTENDS Integers, Sequences, FiniteSets, TLC

\* 2^n mod 25 (2^20 = 1 mod 25)
Pow2Mod25(n) == (2 ^ (n % 20)) % 25

\* Exponent of a positive double near c cents: its ulp is 25 * 2^j units,
\* where 2^(j-10) <= x < 2^(j-9), i.e. 25 * 2^j <= 256 * c.
RECURSIVE BinadeFrom(_, _)
BinadeFrom(c, j) == IF 25 * (2 ^ (j + 1)) <= 256 * c THEN BinadeFrom(c, j + 1) ELSE j

\* A value just below a power of two lies in the binade below it.
BinadeAdj(c, eps, j) == IF 25 * (2 ^ j) = 256 * c /\ eps < 0 THEN j - 1 ELSE j

Binade(c, eps) == BinadeAdj(c, eps, BinadeFrom(c, 3))

\* Round-to-nearest, ties-to-even: r is the value modulo the ulp U, m2 the
\* value modulo 2U (m2 >= U: the double below is odd).
RoundRem(eps, U, m2, r) ==
    IF r = 0 THEN eps
    ELSE IF 2 * r < U THEN eps - r
    ELSE IF 2 * r > U THEN eps + (U - r)
    ELSE IF m2 >= U THEN eps + (U - r) ELSE eps - r

RoundMod(eps, U, m2) == RoundRem(eps, U, m2, m2 % U)

\* v mod m, for m > 0 and any integer v.
Mod(v, m) == ((v % m) + m) % m

\* c * 2^60 mod 25 * 2^(j+1) is 2^(j+1) * (c * 2^(59-j) mod 25).
RoundAt(c, eps, j) ==
    RoundMod(eps, 25 * (2 ^ j),
             Mod((2 ^ (j + 1)) * (((c % 25) * Pow2Mod25(59 - j)) % 25) + eps,
                 50 * (2 ^ j)))

\* The eps of the double nearest to the exact positive value c*2^60 + eps.
RoundPos(c, eps) == RoundAt(c, eps, Binade(c, eps))

RoundSigned(c, eps, sign) == [c |-> c, e |-> sign * RoundPos(sign * c, sign * eps)]

\* The double nearest to the exact value c*2^60 + eps.  A value below half
\* a cent is a difference of two nearby doubles and is exact.
Round(c, eps) ==
    IF c = 0 THEN [c |-> 0, e |-> eps]
    ELSE RoundSigned(c, eps, IF c > 0 THEN 1 ELSE -1)

\* parseFloat("k/100"): the double nearest to k cents.
Dbl(k) == Round(k, 0)

DblAdd(x, y) == Round(x.c + y.c, x.e + y.e)
DblSub(x, y) == Round(x.c - y.c, x.e - y.e)
DblAbs(x) == IF x.c < 0 \/ (x.c = 0 /\ x.e < 0) THEN [c |-> 0 - x.c, e |-> 0 - x.e] ELSE x
DblLt(x, y) == x.c < y.c \/ (x.c = y.c /\ x.e < y.e)
DblMin(x, y) == IF DblLt(y, x) THEN y ELSE x

\* x * n for a small integer n (one rounding of the exact product).
DblMulInt(x, n) == Round(n * x.c, n * x.e)

\* parseFloat(x.toFixed(2)): eps is far below half a cent, so the two
\* decimals printed are those of c.
ToFixed2(x) == Dbl(x.c)

\* The literal 0.01.
Tolerance == Dbl(1)


(***************************************************************************)
(* Bounds of the model.                                                    *)
(***************************************************************************)
\* At most this many expenses are stored.
MaxExpenses == 2
\* generateSettlementSuggestions alone: balance lists of at most MaxMembers
\* members, each balance within MaxBalance cents of zero.
MaxMembers == 3
MaxBalance == 4

Names == <<"A", "B", "C", "D", "E", "F">>

\* The members of the group.
Users == <<"A", "B", "C">>
UserSet == {Users[i] : i \in 1..Len(Users)}

\* Request amounts, in cents: a few cents, or 30.00 and 60.00.
CentAmounts == {1, 2, 3}
WholeAmounts == {3000, 6000}

None == [kind |-> "none"]

VARIABLES
    members,        \* rows of groupMember for the group, in table order:
                    \* the userId of each row
    roles,          \* the role of each row of groupMember
    expenses,       \* rows of expense with their shares (amounts in cents)
    pc,             \* position of the getGroupDashboard request
    memberBalances, \* the balance objects returned by calculateMemberBalances
    debtors,        \* references (indices into memberBalances)
    creditors,      \* references (indices into memberBalances)
    settlements,    \* the settlements pushed so far
    computed,       \* what calculateMemberBalances returned to this request
    iters,          \* iterations of the while loop of this request
    response,       \* the last JSON body sent
    previous,       \* what the previous dashboard request on the same rows
                    \* computed and suggested
    history,        \* rows of expense read by detectRecurringExpenses
    patterns,       \* what detectRecurringExpenses returned
    bills,          \* rows of recurringBill of the group, in creation order
    reminders,      \* rows of billReminder, in creation order
    now,            \* the clock, in ticks
    results,        \* what the last call of the bill-reminder service or of
                    \* generateBillName returned
    runs,           \* the calls of sendBillReminders in flight
    payments,       \* the payment intents, the paid flags of the shares and
                    \* the requests and webhooks in flight
    sessions        \* the rows of refreshToken and the requests in flight

vars == <<members, roles, expenses, pc, memberBalances, debtors, creditors,
          settlements, computed, iters, response, previous, history, patterns,
          bills, reminders, now, results, runs, payments, sessions>>

\* The state of the bill-reminder service.
billVars == <<bills, reminders, now, results>>

\* What requests that run concurrently read and write.
flightVars == <<runs, payments, sessions>>

\* Nothing in flight, nothing to pay, nobody logged in.
Quiet == runs = None /\ payments = None /\ sessions = None

\* No recurring bill, no reminder, nothing returned; the clock at tick 0.
NoBills == bills = <<>> /\ reminders = <<>> /\ now = 0 /\ results = None

\* The rows of groupMember.
groupVars == <<members, roles>>

\* The rows of a group that ms joined in this order: its creator is the
\* admin, who joined later has the role "member".
Joined(ms) ==
    /\ members = ms
    /\ roles = [i \in 1..Len(ms) |-> IF i = 1 THEN "admin" ELSE "member"]

IsMember(u) == \E i \in 1..Len(members) : members[i] = u

(***************************************************************************)
(* createExpense (expense.controller.js)                                   *)
(***************************************************************************)
RECURSIVE SumDetails(_, _)
\* splitDetails.reduce((sum, detail) => sum + detail.amount, 0), from acc.
SumDetails(details, acc) ==
    IF details = <<>> THEN acc
    ELSE SumDetails(Tail(details), DblAdd(acc, Dbl(Head(details).amount)))

\* Math.abs(totalSplitAmount - amount) > 0.01 is false.
CustomSplitAccepted(amount, details) ==
    ~ DblLt(Tolerance, DblAbs(DblSub(SumDetails(details, Dbl(0)), Dbl(amount))))

\* The cents of (amount / n).toFixed(2), q and r the quotient and remainder
\* in cents.  On an exact half cent (n even) the sign of the error of the
\* double decides, and amount / n is exact for n = 2 and n = 4.
ShareCents(amount, n, q, r) ==
    IF 2 * r < n THEN q
    ELSE IF 2 * r > n THEN q + 1
    ELSE IF Dbl(amount).e >= 0 THEN q + 1 ELSE q

\* parseFloat((amount / memberIds.length).toFixed(2)), in cents.
ShareAmount(amount, n) == ShareCents(amount, n, amount \div n, amount % n)

\* shares[0].amount: the remainder is added when shareAmount * n !== amount.
FirstShare(amount, s, total) ==
    IF total # Dbl(amount)
    THEN ToFixed2(DblAdd(Dbl(s), ToFixed2(DblSub(Dbl(amount), total)))).c
    ELSE s

SharesOf(memberIds, s, first) ==
    [i \in 1..Len(memberIds) |->
        [userId |-> memberIds[i], amount |-> IF i = 1 THEN first ELSE s]]

EqualSharesOf(amount, memberIds, s) ==
    SharesOf(memberIds, s, FirstShare(amount, s, DblMulInt(Dbl(s), Len(memberIds))))

\* The shares of an equal split.
EqualShares(amount, memberIds) ==
    EqualSharesOf(amount, memberIds, ShareAmount(amount, Len(memberIds)))

\* The splitDetails a request carries: one member owing a few cents.
SplitDetails == {<<[userId |-> u, amount |-> a]>> : u \in UserSet, a \in CentAmounts}

DistinctUsers(details) ==
    \A i, j \in 1..Len(details) : i # j => details[i].userId # details[j].userId

\* The rows written by the transaction, and the 201 response.
StoreExpense(userId, amount, paidById, shares) ==
    /\ expenses' = Append(expenses,
            [amount |-> amount, paidById |-> paidById,
             createdById |-> userId, shares |-> shares])
    /\ response' = [kind |-> "created"]
    /\ previous' = None
    /\ pc' = "idle"
    /\ memberBalances' = <<>>
    /\ debtors' = <<>>
    /\ creditors' = <<>>
    /\ settlements' = <<>>
    /\ computed' = <<>>
    /\ iters' = 0
    /\ UNCHANGED <<groupVars, flightVars, history, patterns, billVars>>

CreateExpense(userId, amount, paidById, splitType, splitDetails) ==
    /\ pc = "idle"
    /\ Len(expenses) < MaxExpenses
    /\ IsMember(userId)
    /\ IsMember(paidById)
    /\ \/ /\ splitType = "equal"
          /\ StoreExpense(userId, amount, paidById,
                          EqualShares(amount, members))
       \/ /\ splitType = "custom"
          /\ CustomSplitAccepted(amount, splitDetails)
          /\ \A i \in 1..Len(splitDetails) : IsMember(splitDetails[i].userId)
          /\ DistinctUsers(splitDetails)
          /\ StoreExpense(userId, amount, paidById, splitDetails)

(***************************************************************************)
(* updateExpense (expense.controller.js)                                   *)
(***************************************************************************)
\* membership.role of a member.
RoleOf(u) == roles[CHOOSE i \in 1..Len(members) : members[i] = u]

\* A request body.  A field that the body does not carry is undefined, which
\* is falsy: amount 0, paidById "" and splitType "" stand for it, and
\* hasSplitDetails tells whether splitDetails (an array, truthy even when
\* empty) is there.
Body(amount, paidById, splitType, hasSplitDetails, splitDetails) ==
    [amount |-> amount, paidById |-> paidById, splitType |-> splitType,
     hasSplitDetails |-> hasSplitDetails, splitDetails |-> splitDetails]

\* splitType && splitDetails
SplitGiven(body) == body.splitType # "" /\ body.hasSplitDetails

\* Math.abs(totalSplitAmount - amount) > 0.01 is false: without an amount
\* the difference is NaN, and NaN > 0.01 is false.
CustomUpdateAccepted(body) ==
    \/ body.amount = 0
    \/ CustomSplitAccepted(body.amount, body.splitDetails)

\* No 400 response from the split logic; the unique (expenseId, userId) of
\* a share makes the transaction fail on a repeated user.
SplitAccepted(body) ==
    SplitGiven(body) =>
        /\ body.splitType \in {"equal", "custom"}
        /\ body.splitType = "custom" =>
              /\ CustomUpdateAccepted(body)
              /\ \A i \in 1..Len(body.splitDetails) :
                     IsMember(body.splitDetails[i].userId)
              /\ DistinctUsers(body.splitDetails)

\* let shares = [] and the split logic.
NewShares(body) ==
    IF ~ SplitGiven(body) THEN <<>>
    ELSE IF body.splitType = "equal" THEN EqualShares(body.amount, members)
    ELSE body.splitDetails

\* The expense after the transaction: amount and paidById are written when
\* the body carries them, the shares are replaced when shares.length > 0.
UpdatedExpense(expense, body, shares) ==
    [amount |-> IF body.amount # 0 THEN body.amount ELSE expense.amount,
     paidById |-> IF body.paidById # "" THEN body.paidById
                  ELSE expense.paidById,
     createdById |-> expense.createdById,
     shares |-> IF Len(shares) > 0 THEN shares ELSE expense.shares]

\* isAdmin || isCreator
UpdatePermitted(userId, expense) ==
    RoleOf(userId) = "admin" \/ expense.createdById = userId

\* An equal split is asked for together with the amount: the shares of an
\* equal split without an amount are NaN.
UpdateExpense(userId, expenseId, body) ==
    /\ pc = "idle"
    /\ expenseId \in 1..Len(expenses)
    /\ IsMember(userId)
    /\ UpdatePermitted(userId, expenses[expenseId])
    /\ body.paidById # "" => IsMember(body.paidById)
    /\ (SplitGiven(body) /\ body.splitType = "equal") => body.amount # 0
    /\ SplitAccepted(body)
    /\ expenses' = [expenses EXCEPT ![expenseId] =
                        UpdatedExpense(@, body, NewShares(body))]
    /\ response' = [kind |-> "updated"]
    /\ previous' = None
    /\ pc' = "idle"
    /\ memberBalances' = <<>>
    /\ debtors' = <<>>
    /\ creditors' = <<>>
    /\ settlements' = <<>>
    /\ computed' = <<>>
    /\ iters' = 0
    /\ UNCHANGED <<groupVars, flightVars, history, patterns, billVars>>

(***************************************************************************)
(* calculateMemberBalances (dashboard.controller.js)                       *)
(***************************************************************************)
RECURSIVE OwedOf(_, _, _)
\* expense.shares.forEach: owed of user u, from acc.
OwedOf(u, shares, acc) ==
    IF shares = <<>> THEN acc
    ELSE OwedOf(u, Tail(shares),
                IF Head(shares).userId = u
                THEN DblAdd(acc, Dbl(Head(shares).amount)) ELSE acc)

PaidOf(u, expense, acc) ==
    IF expense.paidById = u THEN DblAdd(acc, Dbl(expense.amount)) ELSE acc

RECURSIVE Accumulate(_, _, _)
\* expenses.forEach: paid and owed of user u, from acc = [paid, owed].
Accumulate(u, exps, acc) ==
    IF exps = <<>> THEN acc
    ELSE Accumulate(u, Tail(exps),
                    [paid |-> PaidOf(u, Head(exps), acc.paid),
                     owed |-> OwedOf(u, Head(exps).shares, acc.owed)])

\* balance = paid - owed, each formatted to 2 decimal places.
BalanceOfSwapped(u, acc) ==
    [user |-> u, paid |-> ToFixed2(acc.paid), owed |-> ToFixed2(acc.owed),
     balance |-> ToFixed2(DblSub(acc.owed, acc.paid))]

BalanceOf(u, acc) ==
    [user |-> u, paid |-> ToFixed2(acc.paid), owed |-> ToFixed2(acc.owed),
     balance |-> ToFixed2(DblSub(acc.paid, acc.owed))]

\* a before b under the comparator of the sort.
Before(a, b, desc) == IF desc THEN DblLt(b, a) ELSE DblLt(a, b)

RECURSIVE InsertByUnstable(_, _, _, _)
InsertByUnstable(sorted, i, bal, desc) ==
    IF sorted = <<>> THEN <<i>>
    ELSE IF ~ Before(bal[Head(sorted)], bal[i], desc)
         THEN <<i>> \o sorted
         ELSE <<Head(sorted)>> \o InsertByUnstable(Tail(sorted), i, bal, desc)

\* Array.prototype.sort is stable: an element goes before the first element
\* the comparator puts strictly after it.
RECURSIVE InsertBy(_, _, _, _)
InsertBy(sorted, i, bal, desc) ==
    IF sorted = <<>> THEN <<i>>
    ELSE IF Before(bal[i], bal[Head(sorted)], desc)
         THEN <<i>> \o sorted
         ELSE <<Head(sorted)>> \o InsertBy(Tail(sorted), i, bal, desc)

RECURSIVE SortBy(_, _, _, _)
\* idx sorted by bal (ascending, or descending), from the sorted prefix acc.
SortBy(acc, idx, bal, desc) ==
    IF idx = <<>> THEN acc
    ELSE SortBy(InsertBy(acc, Head(idx), bal, desc), Tail(idx), bal, desc)

BalancesOf(objs) == [i \in 1..Len(objs) |-> objs[i].balance]

Permute(objs, order) == [i \in 1..Len(order) |-> objs[order[i]]]

\* Object.values(balances).sort((a, b) => b.balance - a.balance)
SortDescending(objs) ==
    Permute(objs, SortBy(<<>>, [i \in 1..Len(objs) |-> i], BalancesOf(objs), TRUE))

CalculateMemberBalances(mem, exps) ==
    SortDescending([i \in 1..Len(mem) |->
        BalanceOf(mem[i], Accumulate(mem[i], exps, [paid |-> Dbl(0), owed |-> Dbl(0)]))])

(***************************************************************************)
(* generateSettlementSuggestions (dashboard.controller.js)                 *)
(***************************************************************************)
Zero == Dbl(0)

\* member.balance < 0, or member.balance > 0
Selected(balance, negative) ==
    IF negative THEN DblLt(balance, Zero) ELSE DblLt(Zero, balance)

RECURSIVE FilterIdx(_, _, _)
\* [...balances].filter(pred), as references to the same objects.
FilterIdx(bals, i, negative) ==
    IF i > Len(bals) THEN <<>>
    ELSE (IF Selected(bals[i].balance, negative) THEN <<i>> ELSE <<>>)
         \o FilterIdx(bals, i + 1, negative)

\* Most negative first.
Debtors(bals) == SortBy(<<>>, FilterIdx(bals, 1, TRUE), BalancesOf(bals), FALSE)

\* Least positive first.
CreditorsAscending(bals) ==
    SortBy(<<>>, FilterIdx(bals, 1, FALSE), BalancesOf(bals), FALSE)

\* Most positive first.
Creditors(bals) == SortBy(<<>>, FilterIdx(bals, 1, FALSE), BalancesOf(bals), TRUE)

AmountUnsigned(debtor, creditor) == DblMin(debtor.balance, creditor.balance)

\* const amount = Math.min(Math.abs(debtor.balance), creditor.balance)
Amount(debtor, creditor) == DblMin(DblAbs(debtor.balance), creditor.balance)

\* if (amount > 0.01)
Meaningful(amount) == DblLt(Tolerance, amount)

\* Math.abs(member.balance) < 0.01
Settled(balance) == DblLt(DblAbs(balance), Tolerance)

DebtorAfterSlip(balance, amount) == DblSub(balance, amount)

\* debtor.balance += amount
DebtorAfter(balance, amount) == DblAdd(balance, amount)

CreditorAfterSlip(balance, amount) == DblAdd(balance, amount)

\* creditor.balance -= amount
CreditorAfter(balance, amount) == DblSub(balance, amount)

\* settlements.push({from, to, amount: parseFloat(amount.toFixed(2))})
Pushed(list, debtor, creditor, amount) ==
    IF Meaningful(amount)
    THEN Append(list, [from |-> debtor.user, to |-> creditor.user,
                       amount |-> ToFixed2(amount).c])
    ELSE list

\* if (Math.abs(member.balance) < 0.01) list.shift()
Shifted(list, balance) == IF Settled(balance) THEN Tail(list) ELSE list

(***************************************************************************)
(* getGroupDashboard (dashboard.controller.js)                             *)
(***************************************************************************)
StartWith(bals) ==
    /\ memberBalances' = bals
    /\ computed' = bals
    /\ debtors' = Debtors(bals)
    /\ creditors' = Creditors(bals)

\* The membership check, calculateMemberBalances, and the two sorted lists
\* of generateSettlementSuggestions.
DashboardStart(userId) ==
    /\ pc = "idle"
    /\ IsMember(userId)
    /\ StartWith(CalculateMemberBalances(members, expenses))
    /\ settlements' = <<>>
    /\ iters' = 0
    /\ pc' = "settle"
    /\ UNCHANGED <<groupVars, flightVars, expenses, response, previous, history, patterns, billVars>>

UpdateWith(d, c, dBal, cBal) ==
    /\ memberBalances' =
          [memberBalances EXCEPT ![d].balance = dBal, ![c].balance = cBal]
    /\ debtors' = Shifted(debtors, dBal)
    /\ creditors' = Shifted(creditors, cBal)

Iterate(d, c, amount) ==
    /\ settlements' = Pushed(settlements, memberBalances[d], memberBalances[c], amount)
    /\ UpdateWith(d, c, DebtorAfter(memberBalances[d].balance, amount),
                  CreditorAfter(memberBalances[c].balance, amount))

\* One iteration of the while loop.
SettleStep ==
    /\ pc = "settle"
    /\ debtors # <<>>
    /\ creditors # <<>>
    /\ Iterate(debtors[1], creditors[1],
               Amount(memberBalances[debtors[1]], memberBalances[creditors[1]]))
    /\ iters' = iters + 1
    /\ UNCHANGED <<groupVars, flightVars, expenses, pc, computed, response, previous, history,
                   patterns, billVars>>

\* The loop has ended: res.json({..., balances: memberBalances, settlements}).
DashboardRespond ==
    /\ pc = "settle"
    /\ (debtors = <<>> \/ creditors = <<>>)
    /\ response' = [kind |-> "dashboard", balances |-> memberBalances,
                    settlements |-> settlements]
    /\ previous' = [kind |-> "run", computed |-> computed,
                    settlements |-> settlements]
    /\ pc' = "idle"
    /\ UNCHANGED <<groupVars, flightVars, expenses, memberBalances, debtors, creditors,
                   settlements, computed, iters, history, patterns, billVars>>

GetGroupDashboard ==
    \/ \E u \in UserSet : DashboardStart(u)
    \/ SettleStep
    \/ DashboardRespond

(***************************************************************************)
(* getGroupBalances (expense.controller.js)                                *)
(***************************************************************************)
\* The balances of the current members: an expense paid by, or a share of,
\* a user without a row in groupMember is skipped.
GetGroupBalances(userId) ==
    /\ pc = "idle"
    /\ IsMember(userId)
    /\ response' = [kind |-> "balances",
                    balances |-> CalculateMemberBalances(members, expenses)]
    /\ UNCHANGED <<groupVars, flightVars, expenses, pc, memberBalances, debtors,
                   creditors,
                   settlements, computed, iters, previous, history, patterns,
                   billVars>>

(***************************************************************************)
(* group.controller.js                                                     *)
(***************************************************************************)
\* createGroup: the group and the row of its creator.
CreateGroup(userId) == members = <<userId>> /\ roles = <<"admin">>

\* The row of groupMember of user u.
RowOf(u) == CHOOSE i \in 1..Len(members) : members[i] = u

\* A sequence without its i-th element.
Without(seq, i) ==
    [j \in 1..(Len(seq) - 1) |-> IF j < i THEN seq[j] ELSE seq[j + 1]]

\* The response to a request that wrote groupMember.
GroupResponds(kind) ==
    /\ response' = [kind |-> kind]
    /\ previous' = None
    /\ UNCHANGED <<flightVars, expenses, pc, memberBalances, debtors,
                   creditors, settlements, computed, iters, history, patterns,
                   billVars>>

\* prisma.groupMember.create with role "member".
AddMember(userId) ==
    /\ members' = Append(members, userId)
    /\ roles' = Append(roles, "member")

\* joinGroupByCode: 409 for a member.
JoinGroupByCode(userId) ==
    /\ pc = "idle"
    /\ ~ IsMember(userId)
    /\ AddMember(userId)
    /\ GroupResponds("joined")

\* acceptInvitation with the token of an invitation that has not expired
\* and was sent to the user: 409 for a member.
AcceptInvitation(userId) ==
    /\ pc = "idle"
    /\ ~ IsMember(userId)
    /\ AddMember(userId)
    /\ GroupResponds("joined")

\* updateMemberRole: only an admin, only a member.
UpdateMemberRole(userId, memberId, role) ==
    /\ pc = "idle"
    /\ role \in {"admin", "member"}
    /\ IsMember(userId)
    /\ RoleOf(userId) = "admin"
    /\ IsMember(memberId)
    /\ roles' = [roles EXCEPT ![RowOf(memberId)] = role]
    /\ members' = members
    /\ GroupResponds("role")

\* prisma.groupMember.count({where: {groupId, role: "admin"}})
AdminCount == Cardinality({i \in 1..Len(roles) : roles[i] = "admin"})

\* An admin who removes themselves is not the last admin.
LastAdminStays(userId, memberId) ==
    (RoleOf(userId) = "admin" /\ userId = memberId) => AdminCount > 1

\* removeMember: an admin removes anyone, a member themselves.
RemoveMember(userId, memberId) ==
    /\ pc = "idle"
    /\ IsMember(userId)
    /\ userId = memberId \/ RoleOf(userId) = "admin"
    /\ LastAdminStays(userId, memberId)
    /\ IsMember(memberId)
    /\ members' = Without(members, RowOf(memberId))
    /\ roles' = Without(roles, RowOf(memberId))
    /\ GroupResponds("removed")

(***************************************************************************)
(* Specifications                                                          *)
(***************************************************************************)
Init ==
    /\ Joined(Users)
    /\ expenses = <<>>
    /\ pc = "idle"
    /\ memberBalances = <<>>
    /\ debtors = <<>>
    /\ creditors = <<>>
    /\ settlements = <<>>
    /\ computed = <<>>
    /\ iters = 0
    /\ response = None
    /\ previous = None
    /\ history = <<>>
    /\ patterns = None
    /\ NoBills
    /\ Quiet

\* Expenses of a few cents (equal or custom split) or of 30.00 and 60.00
\* (equal split), and dashboard requests.
Next ==
    \/ \E u \in UserSet, a \in CentAmounts \cup WholeAmounts, p \in UserSet :
          CreateExpense(u, a, p, "equal", <<>>)
    \/ \E u \in UserSet, a \in CentAmounts, p \in UserSet, d \in SplitDetails :
          CreateExpense(u, a, p, "custom", d)
    \/ GetGroupDashboard

Spec == Init /\ [][Next]_vars

\* Equal splits of 30.00 and 60.00 only.
NextWhole ==
    \/ \E u \in UserSet, a \in WholeAmounts, p \in UserSet :
          CreateExpense(u, a, p, "equal", <<>>)
    \/ GetGroupDashboard

SpecWhole == Init /\ [][NextWhole]_vars

\* The amounts, in cents, of the expenses that are updated, and the custom
\* splits of their requests: the second member owes the whole of it.
UpdateAmounts == {1, 3}
UpdateDetails == {<<[userId |-> Users[2], amount |-> a]>> : a \in UpdateAmounts}

\* The bodies of update requests: the amount alone, the payer alone, the
\* amount with an equal split, a custom split with and without the amount.
Bodies ==
    {Body(a, "", "", FALSE, <<>>) : a \in UpdateAmounts}
    \cup {Body(0, p, "", FALSE, <<>>) : p \in {Users[2], Users[3]}}
    \cup {Body(a, "", "equal", TRUE, <<>>) : a \in UpdateAmounts}
    \cup {Body(a, "", "custom", TRUE, d) : a \in UpdateAmounts \cup {0},
                                             d \in UpdateDetails}

\* Expenses of a few cents, recorded by the admin or by a member who paid
\* them, and updates of them asked by anyone.
NextUpdate ==
    \/ \E u \in {Users[1], Users[2]}, a \in UpdateAmounts :
          CreateExpense(u, a, u, "equal", <<>>)
    \/ \E u \in {Users[1], Users[2]}, a \in UpdateAmounts, d \in UpdateDetails :
          CreateExpense(u, a, u, "custom", d)
    \/ \E u \in UserSet, k \in 1..MaxExpenses, body \in Bodies :
          UpdateExpense(u, k, body)

SpecUpdate == Init /\ [][NextUpdate]_vars

\* A group just created by one of the users.
InitGroup ==
    /\ \E u \in UserSet : CreateGroup(u)
    /\ expenses = <<>>
    /\ pc = "idle"
    /\ memberBalances = <<>>
    /\ debtors = <<>>
    /\ creditors = <<>>
    /\ settlements = <<>>
    /\ computed = <<>>
    /\ iters = 0
    /\ response = None
    /\ previous = None
    /\ history = <<>>
    /\ patterns = None
    /\ NoBills
    /\ Quiet

\* Users join and leave, and roles change.
NextGroup ==
    \/ \E u \in UserSet : JoinGroupByCode(u)
    \/ \E u \in UserSet : AcceptInvitation(u)
    \/ \E u, m \in UserSet, r \in {"admin", "member"} : UpdateMemberRole(u, m, r)
    \/ \E u, m \in UserSet : RemoveMember(u, m)

SpecGroup == InitGroup /\ [][NextGroup]_vars

\* Users join and leave, a member records an equal split of 30.00 that
\* they paid, and the balances are asked for.
NextBalances ==
    \/ \E u \in UserSet : JoinGroupByCode(u)
    \/ \E u \in UserSet : AcceptInvitation(u)
    \/ \E u, m \in UserSet : RemoveMember(u, m)
    \/ \E u \in UserSet : CreateExpense(u, 3000, u, "equal", <<>>)
    \/ \E u \in UserSet : GetGroupBalances(u)

SpecBalances == InitGroup /\ [][NextBalances]_vars

\* The balance object of a member with balance k cents.
BalanceObject(i, k) ==
    [user |-> Names[i],
     paid |-> Dbl(IF k > 0 THEN k ELSE 0),
     owed |-> Dbl(IF k < 0 THEN 0 - k ELSE 0),
     balance |-> Dbl(k)]

\* generateSettlementSuggestions called on any list of balance objects.
InitSettle ==
    \E n \in 0..MaxMembers :
        \E ks \in [1..n -> (0 - MaxBalance)..MaxBalance] :
            /\ Joined([i \in 1..n |-> Names[i]])
            /\ expenses = <<>>
            /\ pc = "settle"
            /\ memberBalances = [i \in 1..n |-> BalanceObject(i, ks[i])]
            /\ computed = [i \in 1..n |-> BalanceObject(i, ks[i])]
            /\ debtors = Debtors([i \in 1..n |-> BalanceObject(i, ks[i])])
            /\ creditors = Creditors([i \in 1..n |-> BalanceObject(i, ks[i])])
            /\ settlements = <<>>
            /\ iters = 0
            /\ response = None
            /\ previous = None
            /\ history = <<>>
            /\ patterns = None
            /\ NoBills
            /\ Quiet

NextSettle == SettleStep \/ DashboardRespond

SpecSettle == InitSettle /\ [][NextSettle]_vars

(***************************************************************************)
(* detectRecurringExpenses (bill-predictor.utils.js)                       *)
(***************************************************************************)
\* At most this many expenses in the history read by the detector.
MaxHistory == 4

\* createdAt is counted in ticks of half a day.
TicksPerDay == 2

\* Descriptions, already split at " ".
Descriptions ==
    {<<"Netflix", "Monthly", "Subscription">>, <<"Netflix", "Monthly", "Charge">>,
     <<"Gym">>}
HistoryAmounts == {4999, 5001}
Categories == {"Entertainment", ""}
\* Ticks between two consecutive expenses of the history.
GapTicks == {0, 14}

\* word.toLowerCase()
LowerCase(w) ==
    CASE w = "Netflix" -> "netflix"
      [] w = "Monthly" -> "monthly"
      [] w = "Subscription" -> "subscription"
      [] w = "Charge" -> "charge"
      [] w = "Gym" -> "gym"
      [] OTHER -> w

\* word.length
WordLength(w) ==
    CASE w = "netflix" -> 7
      [] w = "monthly" -> 7
      [] w = "subscription" -> 12
      [] w = "charge" -> 6
      [] w = "gym" -> 3
      [] OTHER -> 0

\* Math.round(expense.amount), the amount in cents
AmountKey(amount) == (amount + 50) \div 100

RECURSIVE LongWords(_)
\* descriptionWords.filter((word) => word.length > 3), lowercased
LongWords(words) ==
    IF words = <<>> THEN <<>>
    ELSE (IF WordLength(LowerCase(Head(words))) > 3
          THEN <<LowerCase(Head(words))>> ELSE <<>>) \o LongWords(Tail(words))

\* .slice(0, 3)
Slice3(words) == IF Len(words) > 3 THEN SubSeq(words, 1, 3) ELSE words

\* `${amountKey}-${keyWords.join("-")}`
GroupKey(expense) ==
    [amountKey |-> AmountKey(expense.amount),
     keyWords |-> Slice3(LongWords(expense.description))]

RECURSIVE GroupKeys(_, _)
\* Object.keys(groupedExpenses): the keys in the order of their first expense.
GroupKeys(rows, keys) ==
    IF rows = <<>> THEN keys
    ELSE GroupKeys(Tail(rows),
                   IF \E i \in 1..Len(keys) : keys[i] = GroupKey(Head(rows))
                   THEN keys ELSE Append(keys, GroupKey(Head(rows))))

RECURSIVE Bucket(_, _)
\* groupedExpenses[key]
Bucket(rows, key) ==
    IF rows = <<>> THEN <<>>
    ELSE (IF GroupKey(Head(rows)) = key THEN <<Head(rows)>> ELSE <<>>)
         \o Bucket(Tail(rows), key)

RECURSIVE InsertByDate(_, _)
InsertByDate(sorted, row) ==
    IF sorted = <<>> THEN <<row>>
    ELSE IF row.createdAt < Head(sorted).createdAt
         THEN <<row>> \o sorted
         ELSE <<Head(sorted)>> \o InsertByDate(Tail(sorted), row)

RECURSIVE SortByDate(_, _)
\* group.sort((a, b) => new Date(a.createdAt) - new Date(b.createdAt))
SortByDate(acc, rows) ==
    IF rows = <<>> THEN acc
    ELSE SortByDate(InsertByDate(acc, Head(rows)), Tail(rows))

\* Math.round(ms / (1000 * 60 * 60 * 24)): halves round up.
DaysDiff(ticks) == (2 * ticks + TicksPerDay) \div (2 * TicksPerDay)

Intervals(group) ==
    [i \in 1..(Len(group) - 1) |->
        DaysDiff(group[i + 1].createdAt - group[i].createdAt)]

RECURSIVE SumOf(_)
SumOf(xs) == IF xs = <<>> THEN 0 ELSE Head(xs) + SumOf(Tail(xs))

FrequencyOpen(total, n) ==
    IF total < 8 * n THEN "weekly"
    ELSE IF total < 18 * n THEN "biweekly"
    ELSE IF total < 35 * n THEN "monthly"
    ELSE IF total < 100 * n THEN "quarterly"
    ELSE "yearly"

\* avgInterval = total / n: the thresholds 8, 18, 35, 100 on total and n.
Frequency(total, n) ==
    IF total <= 8 * n THEN "weekly"
    ELSE IF total <= 18 * n THEN "biweekly"
    ELSE IF total <= 35 * n THEN "monthly"
    ELSE IF total <= 100 * n THEN "quarterly"
    ELSE "yearly"

\* n^2 times the sum of the squared deviations from the average.
Deviation(intervals, total) ==
    SumOf([i \in 1..Len(intervals) |->
        (Len(intervals) * intervals[i] - total) * (Len(intervals) * intervals[i] - total)])

\* Math.round(Math.max(0, Math.min(100, 100 - (stdDev / avgInterval) * 100)))
\* for avgInterval > 0: stdDev / avgInterval is sqrt(dev / (n * total^2)), so
\* the result is the largest c with 200 * sqrt(dev / (n * total^2)) <= 201 - 2c,
\* or 0.
\* The comparison 40000 * dev <= k * m is made as dev <= floor(k * m / 40000),
\* which keeps every product within 32 bits.
Within(dev, k, m) == dev <= k * (m \div 40000) + (k * (m % 40000)) \div 40000

PercentOf(dev, m) ==
    IF \E c \in 0..100 : Within(dev, (201 - 2 * c) * (201 - 2 * c), m)
    THEN CHOOSE c \in 0..100 :
            /\ Within(dev, (201 - 2 * c) * (201 - 2 * c), m)
            /\ \A b \in (c + 1)..100 : ~Within(dev, (201 - 2 * b) * (201 - 2 * b), m)
    ELSE 0

Percent(dev, total, n) == PercentOf(dev, n * total * total)

\* A JavaScript number that is an integer or NaN.
NaN == [nan |-> TRUE, value |-> 0]

Number(k) == [nan |-> FALSE, value |-> k]

ConfidenceOfInverted(dev, total, n) ==
    IF total = 0 THEN NaN ELSE Number(100 - Percent(dev, total, n))

\* With avgInterval = 0 the quotient is 0 / 0, and Math.min, Math.max and
\* Math.round of NaN are NaN.
ConfidenceOf(dev, total, n) ==
    IF total = 0 THEN NaN ELSE Number(Percent(dev, total, n))

Confidence(intervals, total) ==
    ConfidenceOf(Deviation(intervals, total), total, Len(intervals))

\* Dates are local times counted in ticks from midnight of 1 January of
\* EpochYear; months are numbered from 0, as getMonth does.
EpochYear == 2024

IsLeap(y) == (y % 4 = 0 /\ y % 100 # 0) \/ y % 400 = 0

DaysInYear(y) == IF IsLeap(y) THEN 366 ELSE 365

DaysInMonth(y, m) ==
    IF m = 1 THEN (IF IsLeap(y) THEN 29 ELSE 28)
    ELSE IF m \in {3, 5, 8, 10} THEN 30 ELSE 31

RECURSIVE MonthFrom(_, _, _)
\* The date that is `day` days after the first of month m of year y.
MonthFrom(day, y, m) ==
    IF day >= DaysInMonth(y, m)
    THEN (IF m = 11 THEN MonthFrom(day - DaysInMonth(y, m), y + 1, 0)
          ELSE MonthFrom(day - DaysInMonth(y, m), y, m + 1))
    ELSE [year |-> y, month |-> m, date |-> day + 1]

\* getFullYear(), getMonth(), getDate() of the date at tick t.
DateOf(t) == MonthFrom(t \div TicksPerDay, EpochYear, 0)

RECURSIVE DaysBefore(_, _)
\* Days from the first of January of EpochYear to the first of month m of
\* year y.
DaysBefore(y, m) ==
    IF m > 0 THEN DaysInMonth(y, m - 1) + DaysBefore(y, m - 1)
    ELSE IF y > EpochYear THEN DaysInYear(y - 1) + DaysBefore(y - 1, 0)
    ELSE 0

\* MakeDay: a month past December carries into the year, a date past the end
\* of the month runs into the following month.
MakeDay(y, m, d) == DaysBefore(y + (m \div 12), m % 12) + d - 1

\* The time of day of t on the day made of y, m, d.
MakeDate(t, y, m, d) == (MakeDay(y, m, d) * TicksPerDay) + (t % TicksPerDay)

\* setDate(getDate() + n)
AddDate(t, at, n) == MakeDate(t, at.year, at.month, at.date + n)

\* setMonth(getMonth() + n)
AddMonth(t, at, n) == MakeDate(t, at.year, at.month + n, at.date)

\* setFullYear(getFullYear() + n)
AddFullYear(t, at, n) == MakeDate(t, at.year + n, at.month, at.date)

\* The switch on the frequency.
Advance(t, at, frequency) ==
    CASE frequency = "weekly" -> AddDate(t, at, 7)
      [] frequency = "biweekly" -> AddDate(t, at, 14)
      [] frequency = "monthly" -> AddMonth(t, at, 1)
      [] frequency = "quarterly" -> AddMonth(t, at, 3)
      [] frequency = "yearly" -> AddFullYear(t, at, 1)
      [] OTHER -> t

\* nextDueDate: the date of the last expense advanced by the frequency.
NextDueDate(t, frequency) == Advance(t, DateOf(t), frequency)

\* The pattern pushed for a group of at least 2 expenses, sorted by date.
PatternWith(latest, intervals, total, size) ==
    [description |-> latest.description,
     amount |-> latest.amount,
     category |-> IF latest.category = "" THEN "Uncategorized" ELSE latest.category,
     frequency |-> Frequency(total, Len(intervals)),
     nextDueDate |-> NextDueDate(latest.createdAt, Frequency(total, Len(intervals))),
     confidence |-> Confidence(intervals, total),
     occurrences |-> size]

PatternOfIntervals(group, intervals) ==
    PatternWith(group[Len(group)], intervals, SumOf(intervals), Len(group))

PatternOfSorted(group) == PatternOfIntervals(group, Intervals(group))

PatternOf(group) == PatternOfSorted(SortByDate(<<>>, group))

RECURSIVE PatternsOfAny(_, _)
PatternsOfAny(rows, keys) ==
    IF keys = <<>> THEN <<>>
    ELSE <<PatternOf(Bucket(rows, Head(keys)))>> \o PatternsOfAny(rows, Tail(keys))

RECURSIVE PatternsOf(_, _)
\* Object.keys(groupedExpenses).forEach: groups of at least 2 expenses.
PatternsOf(rows, keys) ==
    IF keys = <<>> THEN <<>>
    ELSE (IF Len(Bucket(rows, Head(keys))) >= 2
          THEN <<PatternOf(Bucket(rows, Head(keys)))>> ELSE <<>>)
         \o PatternsOf(rows, Tail(keys))

\* b.confidence - a.confidence < 0; a difference with NaN is NaN, not < 0.
MoreConfident(a, b) ==
    /\ ~a.confidence.nan
    /\ ~b.confidence.nan
    /\ b.confidence.value < a.confidence.value

RECURSIVE InsertByConfidence(_, _)
InsertByConfidence(sorted, p) ==
    IF sorted = <<>> THEN <<p>>
    ELSE IF MoreConfident(p, Head(sorted))
         THEN <<p>> \o sorted
         ELSE <<Head(sorted)>> \o InsertByConfidence(Tail(sorted), p)

RECURSIVE SortByConfidence(_, _)
\* recurringPatterns.sort((a, b) => b.confidence - a.confidence)
SortByConfidence(acc, ps) ==
    IF ps = <<>> THEN acc
    ELSE SortByConfidence(InsertByConfidence(acc, Head(ps)), Tail(ps))

\* The orders of 1..n.
Orders(n) == {f \in [1..n -> 1..n] : \A i, j \in 1..n : f[i] = f[j] => i = j}

\* What the sort may return. The comparator yields NaN for a pattern of NaN
\* confidence, which sort takes as "equal"; the comparator is then not a
\* consistent order and the resulting order is implementation-defined.
SortedLists(ps) ==
    IF \E i \in 1..Len(ps) : ps[i].confidence.nan
    THEN {Permute(ps, f) : f \in Orders(Len(ps))}
    ELSE {SortByConfidence(<<>>, ps)}

DetectRecurringExpenses ==
    /\ patterns = None
    /\ \E list \in SortedLists(PatternsOf(history, GroupKeys(history, <<>>))) :
          patterns' = [kind |-> "patterns", list |-> list]
    /\ UNCHANGED <<groupVars, flightVars, expenses, pc, memberBalances, debtors,
                   creditors,
                   settlements, computed, iters, response, previous, history,
                   billVars>>

\* The rows of a history: createdAt ascending, as the query orders them.
Row(a, d, c, t) == [amount |-> a, description |-> d, category |-> c, createdAt |-> t]

\* The histories that extend a history of the set by one row.
Extended(hs, descs, amounts, cats, gaps) ==
    {Append(h, Row(a, d, c, h[Len(h)].createdAt + g)) :
        h \in hs, a \in amounts, d \in descs, c \in cats, g \in gaps}

RECURSIVE HistoriesOf(_, _, _, _, _)
\* The histories of exactly n rows, n >= 1, the first created at tick 0.
HistoriesOf(n, descs, amounts, cats, gaps) ==
    IF n = 1 THEN {<<Row(a, d, c, 0)>> : a \in amounts, d \in descs, c \in cats}
    ELSE Extended(HistoriesOf(n - 1, descs, amounts, cats, gaps),
                  descs, amounts, cats, gaps)

Histories(max, descs, amounts, cats, gaps) ==
    {<<>>} \cup UNION {HistoriesOf(n, descs, amounts, cats, gaps) : n \in 1..max}

InitDetect ==
    /\ Joined(Users)
    /\ expenses = <<>>
    /\ pc = "idle"
    /\ memberBalances = <<>>
    /\ debtors = <<>>
    /\ creditors = <<>>
    /\ settlements = <<>>
    /\ computed = <<>>
    /\ iters = 0
    /\ response = None
    /\ previous = None
    /\ history \in Histories(MaxHistory, Descriptions, HistoryAmounts,
                              {"Entertainment"}, GapTicks)
    /\ patterns = None
    /\ NoBills
    /\ Quiet

NextDetect == DetectRecurringExpenses

SpecDetect == InitDetect /\ [][NextDetect]_vars

\* Gaps of 0, 7, 7.5, 9, 18, 30, 35, 36, 100 and 101 days, in ticks.
GapSteps == {0, 14, 15, 18, 36, 60, 70, 72, 200, 202}

\* Histories of one recurring expense, with gaps around every threshold.
InitGaps ==
    /\ Joined(Users)
    /\ expenses = <<>>
    /\ pc = "idle"
    /\ memberBalances = <<>>
    /\ debtors = <<>>
    /\ creditors = <<>>
    /\ settlements = <<>>
    /\ computed = <<>>
    /\ iters = 0
    /\ response = None
    /\ previous = None
    /\ history \in Histories(MaxHistory, {<<"Gym">>}, {4999}, {"Entertainment"},
                              GapSteps)
    /\ patterns = None
    /\ NoBills
    /\ Quiet

SpecGaps == InitGaps /\ [][NextDetect]_vars

(***************************************************************************)
(* generateBillName (bill-predictor.utils.js)                              *)
(***************************************************************************)
\* A string is the sequence of its characters.
Uppers == <<"A", "B", "C", "D", "E", "F", "G", "H", "I", "J", "K", "L", "M", "N", "O", "P", "Q", "R", "S", "T", "U", "V", "W", "X", "Y", "Z">>
Lowers == <<"a", "b", "c", "d", "e", "f", "g", "h", "i", "j", "k", "l", "m", "n", "o", "p", "q", "r", "s", "t", "u", "v", "w", "x", "y", "z">>
Digits == {"0", "1", "2", "3", "4", "5", "6", "7", "8", "9"}

IndexIn(chars, ch) == CHOOSE i \in 1..Len(chars) : chars[i] = ch

ToLower(ch) ==
    IF \E i \in 1..Len(Uppers) : Uppers[i] = ch THEN Lowers[IndexIn(Uppers, ch)] ELSE ch

ToUpper(ch) ==
    IF \E i \in 1..Len(Lowers) : Lowers[i] = ch THEN Uppers[IndexIn(Lowers, ch)] ELSE ch

\* The alternatives of the regular expression, in order, before #\d+.
NoiseWords ==
    << <<"p", "a", "y", "m", "e", "n", "t", " ", "t", "o">>,
       <<"p", "a", "y", "m", "e", "n", "t", " ", "f", "o", "r">>,
       <<"i", "n", "v", "o", "i", "c", "e">>,
       <<"b", "i", "l", "l">>,
       <<"r", "e", "c", "e", "i", "p", "t">>,
       <<"t", "r", "a", "n", "s", "a", "c", "t", "i", "o", "n">> >>

\* word matches s at position i, letters compared as written
StartsWithExact(s, i, word) ==
    /\ i + Len(word) - 1 <= Len(s)
    /\ \A j \in 1..Len(word) : s[i + j - 1] = word[j]

\* word matches s at position i (flag i: letter case ignored)
StartsWith(s, i, word) ==
    /\ i + Len(word) - 1 <= Len(s)
    /\ \A j \in 1..Len(word) : ToLower(s[i + j - 1]) = word[j]

RECURSIVE DigitsAt(_, _)
\* \d+ is greedy: the number of digits of s from position i on.
DigitsAt(s, i) ==
    IF i <= Len(s) /\ s[i] \in Digits THEN 1 + DigitsAt(s, i + 1) ELSE 0

RECURSIVE WordMatch(_, _, _)
\* Length of the first alternative from the k-th on that matches at i, or 0.
WordMatch(s, i, k) ==
    IF k > Len(NoiseWords)
    THEN (IF s[i] = "#" /\ DigitsAt(s, i + 1) > 0 THEN 1 + DigitsAt(s, i + 1) ELSE 0)
    ELSE IF StartsWith(s, i, NoiseWords[k]) THEN Len(NoiseWords[k])
    ELSE WordMatch(s, i, k + 1)

RECURSIVE StripFrom(_, _)
SkipMatch(s, i, n) ==
    IF n > 0 THEN StripFrom(s, i + n) ELSE <<s[i]>> \o StripFrom(s, i + 1)

\* replace(/.../gi, ""): every match, leftmost first, is removed.
StripFrom(s, i) == IF i > Len(s) THEN <<>> ELSE SkipMatch(s, i, WordMatch(s, i, 1))

RECURSIVE TrimStart(_)
TrimStart(s) == IF s # <<>> /\ Head(s) = " " THEN TrimStart(Tail(s)) ELSE s

RECURSIVE TrimEnd(_)
TrimEnd(s) ==
    IF s # <<>> /\ s[Len(s)] = " " THEN TrimEnd(SubSeq(s, 1, Len(s) - 1)) ELSE s

\* trim()
Trim(s) == TrimEnd(TrimStart(s))

RECURSIVE Split(_, _, _)
\* split(" "): the words between single spaces; two spaces in a row give an
\* empty word, and the empty string gives one empty word.
Split(s, i, word) ==
    IF i > Len(s) THEN <<word>>
    ELSE IF s[i] = " " THEN <<word>> \o Split(s, i + 1, <<>>)
    ELSE Split(s, i + 1, Append(word, s[i]))

\* word.charAt(0).toUpperCase() + word.slice(1).toLowerCase()
Capitalize(word) ==
    [i \in 1..Len(word) |-> IF i = 1 THEN ToUpper(word[i]) ELSE ToLower(word[i])]

RECURSIVE Join(_)
\* join(" ")
Join(words) ==
    IF Len(words) = 1 THEN Head(words)
    ELSE Head(words) \o <<" ">> \o Join(Tail(words))

TitleCase(clean) ==
    Join([i \in 1..Len(Split(clean, 1, <<>>)) |-> Capitalize(Split(clean, 1, <<>>)[i])])

\* billName || description
OrElse(billName, description) == IF billName = <<>> THEN description ELSE billName

BillName(description) ==
    OrElse(TitleCase(Trim(StripFrom(description, 1))), description)

GenerateBillName(description) ==
    /\ results = None
    /\ results' = [kind |-> "name", description |-> description,
                   billName |-> BillName(description)]
    /\ UNCHANGED <<groupVars, flightVars, expenses, pc, memberBalances, debtors,
                   creditors,
                   settlements, computed, iters, response, previous, history,
                   patterns, bills, reminders, now>>

\* Parts of descriptions, each with what should be left of it.
Pieces ==
    { [text |-> <<"P", "a", "y", "m", "e", "n", "t", " ", "t", "o", " ">>, kept |-> <<" ">>],
      [text |-> <<"N", "e", "t", "f", "l", "i", "x">>, kept |-> <<"N", "e", "t", "f", "l", "i", "x">>],
      [text |-> <<" ", "#", "4", "8", "2", "1">>, kept |-> <<" ">>],
      [text |-> <<"I", "N", "V", "O", "I", "C", "E">>, kept |-> <<>>],
      [text |-> <<" ", "b", "i", "l", "l">>, kept |-> <<" ">>],
      [text |-> <<"g", "y", "m">>, kept |-> <<"g", "y", "m">>],
      [text |-> <<"p", "a", "y", "m", "e", "n", "t", " ", "f", "o", "r">>, kept |-> <<>>],
      [text |-> <<"R", "e", "c", "e", "i", "p", "t">>, kept |-> <<>>],
      [text |-> <<"t", "r", "a", "n", "s", "a", "c", "t", "i", "o", "n">>, kept |-> <<>>] }

MaxPieces == 3

PieceLists == UNION {[1..n -> Pieces] : n \in 1..MaxPieces}

RECURSIVE TextOf(_)
TextOf(ps) == IF ps = <<>> THEN <<>> ELSE Head(ps).text \o TextOf(Tail(ps))

NextName == \E ps \in PieceLists : GenerateBillName(TextOf(ps))

SpecName == Init /\ [][NextName]_vars

(***************************************************************************)
(* analyzeGroupExpenses (bill-reminder.service.js)                         *)
(***************************************************************************)
\* The characters of a word of the descriptions.
Spelling(w) ==
    CASE w = "Netflix" -> <<"N", "e", "t", "f", "l", "i", "x">>
      [] w = "Monthly" -> <<"M", "o", "n", "t", "h", "l", "y">>
      [] w = "Subscription" -> <<"S", "u", "b", "s", "c", "r", "i", "p", "t", "i", "o", "n">>
      [] w = "Charge" -> <<"C", "h", "a", "r", "g", "e">>
      [] w = "Gym" -> <<"G", "y", "m">>
      [] OTHER -> <<>>

\* The description as a string: its words with a space between them.
Spell(words) == Join([i \in 1..Len(words) |-> Spelling(words[i])])

EligibleAbove(confidence) == ~confidence.nan /\ confidence.value > 70

\* pattern.confidence >= 70: false for NaN
Eligible(confidence) == ~confidence.nan /\ confidence.value >= 70

\* description: { contains: pattern.description }
Contains(text, part) ==
    \E i \in 0..(Len(text) - Len(part)) : SubSeq(text, i + 1, i + Len(part)) = part

SimilarAbove(bill, pattern) ==
    /\ bill.category = pattern.category
    /\ 10 * bill.amount >= 11 * pattern.amount
    /\ Contains(bill.description, pattern.description)

\* The where clause of findFirst: same category, amount within 10 % of the
\* pattern's, description containing the pattern's.
Similar(bill, pattern) ==
    /\ bill.category = pattern.category
    /\ 10 * bill.amount >= 9 * pattern.amount
    /\ 10 * bill.amount <= 11 * pattern.amount
    /\ Contains(bill.description, pattern.description)

Matching(store, pattern) == {i \in 1..Len(store) : Similar(store[i], pattern)}

\* findFirst has no orderBy: with several similar bills the one returned is
\* unspecified, the oldest or the newest of them.
ExistingBill(store, pattern, newest) ==
    CHOOSE i \in Matching(store, pattern) :
        \A j \in Matching(store, pattern) : IF newest THEN j <= i ELSE i <= j

\* recurringBill.update({ nextDueDate, frequency, updatedAt })
UpdatedBill(bill, pattern, at) ==
    [bill EXCEPT !.nextDueDate = pattern.nextDueDate,
                 !.frequency = pattern.frequency,
                 !.updatedAt = at]

\* recurringBill.create
NewBill(id, pattern, userId, at) ==
    [id |-> id,
     name |-> BillName(Spell(pattern.description)),
     description |-> pattern.description,
     amount |-> pattern.amount,
     category |-> pattern.category,
     frequency |-> pattern.frequency,
     nextDueDate |-> pattern.nextDueDate,
     createdById |-> userId,
     updatedAt |-> at]

\* results.detected.push({...})
Suggestion(pattern) ==
    [description |-> pattern.description,
     amount |-> pattern.amount,
     category |-> pattern.category,
     frequency |-> pattern.frequency,
     nextDueDate |-> pattern.nextDueDate,
     confidence |-> pattern.confidence]

\* The body of the loop for one pattern; acc is the store and the results.
Saved(acc, bill) ==
    [store |-> IF bill.id <= Len(acc.store)
               THEN [acc.store EXCEPT ![bill.id] = bill]
               ELSE Append(acc.store, bill),
     detected |-> acc.detected,
     saved |-> Append(acc.saved, bill)]

Detected(acc, pattern) ==
    [store |-> acc.store,
     detected |-> Append(acc.detected, Suggestion(pattern)),
     saved |-> acc.saved]

Analyzed(acc, pattern, userId, at, newest) ==
    IF Eligible(pattern.confidence)
    THEN (IF Matching(acc.store, pattern) # {}
          THEN Saved(acc, UpdatedBill(
                   acc.store[ExistingBill(acc.store, pattern, newest)],
                   pattern, at))
          ELSE Saved(acc, NewBill(Len(acc.store) + 1, pattern, userId, at)))
    ELSE Detected(acc, pattern)

RECURSIVE AnalyzedAll(_, _, _, _, _)
\* for (const pattern of recurringPatterns)
AnalyzedAll(acc, list, userId, at, newest) ==
    IF list = <<>> THEN acc
    ELSE AnalyzedAll(Analyzed(acc, Head(list), userId, at, newest), Tail(list),
                     userId, at, newest)

AnalysisReturns(list, acc) ==
    /\ patterns' = [kind |-> "patterns", list |-> list]
    /\ bills' = acc.store
    /\ results' = [kind |-> "analysis", detected |-> acc.detected, saved |-> acc.saved]

AnalyzeGroupExpenses(userId) ==
    /\ \E list \in SortedLists(PatternsOf(history, GroupKeys(history, <<>>))),
          newest \in BOOLEAN :
          AnalysisReturns(list,
              AnalyzedAll([store |-> bills, detected |-> <<>>, saved |-> <<>>],
                          list, userId, now, newest))
    /\ UNCHANGED <<groupVars, flightVars, expenses, pc, memberBalances, debtors,
                   creditors,
                   settlements, computed, iters, response, previous, history,
                   reminders, now>>

\* Gaps of 0, 7 and 13 days: buckets of confidence NaN, 0, 69, 70 and 100.
AnalysisGaps == {0, 14, 26}

\* At most this many expenses in an analyzed history.
MaxAnalyzed == 5

\* Histories of two recurring expenses, all rows of one category.
InitAnalyze ==
    /\ Joined(Users)
    /\ expenses = <<>>
    /\ pc = "idle"
    /\ memberBalances = <<>>
    /\ debtors = <<>>
    /\ creditors = <<>>
    /\ settlements = <<>>
    /\ computed = <<>>
    /\ iters = 0
    /\ response = None
    /\ previous = None
    /\ \E c \in Categories :
          history \in Histories(MaxAnalyzed,
                                {<<"Netflix", "Monthly", "Subscription">>, <<"Gym">>},
                                {4999}, {c}, AnalysisGaps)
    /\ patterns = None
    /\ NoBills
    /\ Quiet

NextAnalyze == \E u \in {Users[1], Users[2]} : AnalyzeGroupExpenses(u)

SpecAnalyze == InitAnalyze /\ [][NextAnalyze]_vars

(***************************************************************************)
(* sendBillReminders (bill-reminder.service.js)                            *)
(***************************************************************************)
\* threeDaysFromNow.setDate(threeDaysFromNow.getDate() + 3)
ThreeDaysFrom(at) == AddDate(at, DateOf(at), 3)

\* sentAt of the reminders of a bill
SentAt(rows, id) == {rows[j].sentAt : j \in {i \in 1..Len(rows) : rows[i].billId = id}}

\* reminders: { orderBy: { sentAt: "desc" }, take: 1 }
LatestSentAt(sent) == CHOOSE t \in sent : \A u \in sent : u <= t

\* new Date() - bill.reminders[0].sentAt < 24 * 60 * 60 * 1000
SentLately(sent, at) == sent # {} /\ at - LatestSentAt(sent) < TicksPerDay

HasRecentReminder(rows, id, at) == SentLately(SentAt(rows, id), at)

\* updateNextDueDate: one period of the bill's frequency after its due date.
AdvancedBill(bill, at) ==
    [bill EXCEPT !.nextDueDate = NextDueDate(bill.nextDueDate, bill.frequency),
                 !.updatedAt = at]

Reminder(id, at) == [billId |-> id, sentAt |-> at, status |-> "sent"]

\* The bill is reminded: a reminder row is created, and the due date is
\* moved only if it is already in the past.
Reminded(acc, bill, at) ==
    [store |-> IF bill.nextDueDate < at
               THEN [acc.store EXCEPT ![bill.id] = AdvancedBill(bill, at)]
               ELSE acc.store,
     rows |-> Append(acc.rows, Reminder(bill.id, at)),
     sent |-> Append(acc.sent, [reminder |-> Reminder(bill.id, at), bill |-> bill])]

RECURSIVE RemindedAll(_, _, _, _)
\* for (const bill of dueBills): the bills as the query returned them, in
\* the order of the store.
RemindedAll(acc, due, i, at) ==
    IF i > Len(due) THEN acc
    ELSE IF due[i].nextDueDate <= ThreeDaysFrom(at)
            /\ ~HasRecentReminder(acc.rows, due[i].id, at)
         THEN RemindedAll(Reminded(acc, due[i], at), due, i + 1, at)
         ELSE RemindedAll(acc, due, i + 1, at)

RemindersReturn(acc) ==
    /\ bills' = acc.store
    /\ reminders' = acc.rows
    /\ results' = [kind |-> "reminders", sent |-> acc.sent]

SendBillReminders ==
    /\ RemindersReturn(RemindedAll([store |-> bills, rows |-> reminders, sent |-> <<>>],
                                   bills, 1, now))
    /\ UNCHANGED <<groupVars, flightVars, expenses, pc, memberBalances, debtors,
                   creditors,
                   settlements, computed, iters, response, previous, history,
                   patterns, now>>

\* The clock is read at tick StartClock (1 March 2024) at first and then
\* advances by half a day at a time, at most MaxClock times.
StartClock == 120

MaxClock == 3

Tick ==
    /\ now < StartClock + MaxClock
    /\ now' = now + 1
    /\ UNCHANGED <<groupVars, flightVars, expenses, pc, memberBalances, debtors,
                   creditors,
                   settlements, computed, iters, response, previous, history,
                   patterns, bills, reminders, results>>

\* createRecurringBill
ManualBill(id, frequency, due) ==
    [id |-> id,
     name |-> <<"G", "y", "m">>,
     description |-> <<"Gym">>,
     amount |-> 4999,
     category |-> "Entertainment",
     frequency |-> frequency,
     nextDueDate |-> due,
     createdById |-> Users[1],
     updatedAt |-> 0]

Frequencies == {"weekly", "biweekly", "monthly", "quarterly", "yearly"}

\* Due on 31 January, 29 February, 2 March and 11 March 2024.
DueDates == {60, 118, 122, 140}

MaxBills == 2

InitRemind ==
    /\ Joined(Users)
    /\ expenses = <<>>
    /\ pc = "idle"
    /\ memberBalances = <<>>
    /\ debtors = <<>>
    /\ creditors = <<>>
    /\ settlements = <<>>
    /\ computed = <<>>
    /\ iters = 0
    /\ response = None
    /\ previous = None
    /\ history = <<>>
    /\ patterns = None
    /\ \E n \in 1..MaxBills :
          \E f \in [1..n -> Frequencies], d \in [1..n -> DueDates] :
              bills = [i \in 1..n |-> ManualBill(i, f[i], d[i])]
    /\ reminders = <<>>
    /\ now = StartClock
    /\ results = None
    /\ Quiet

NextRemind == SendBillReminders \/ Tick

SpecRemind == InitRemind /\ [][NextRemind]_vars

\* The callers of sendBillReminders: runScheduledTasks and the sendReminders
\* endpoint.
Callers == {"scheduler", "endpoint"}

\* No call in flight for a caller.
IdleRun == [pc |-> "idle", due |-> <<>>, i |-> 0, sent |-> <<>>]

\* A row of findMany: the bill with the sentAt of its latest reminder, if
\* it has one.
DueBill(bill, rows) ==
    [bill |-> bill,
     reminders |-> IF SentAt(rows, bill.id) = {} THEN <<>>
                   ELSE <<LatestSentAt(SentAt(rows, bill.id))>>]

RECURSIVE DueBills(_, _, _, _)
\* prisma.recurringBill.findMany: nextDueDate lte threeDaysFromNow.
DueBills(store, rows, i, limit) ==
    IF i > Len(store) THEN <<>>
    ELSE (IF store[i].nextDueDate <= limit
          THEN <<DueBill(store[i], rows)>> ELSE <<>>)
         \o DueBills(store, rows, i + 1, limit)

\* The steps of the calls leave the rest of the state alone.
RunStep ==
    UNCHANGED <<groupVars, expenses, pc, memberBalances, debtors, creditors,
                settlements, computed, iters, response, previous, history,
                patterns, now, payments, sessions>>

\* The call starts: the due bills are read.
FindDueBills(p) ==
    /\ runs[p].pc = "idle"
    /\ runs' = [runs EXCEPT ![p] =
                    [pc |-> "loop",
                     due |-> DueBills(bills, reminders, 1, ThreeDaysFrom(now)),
                     i |-> 1, sent |-> <<>>]]
    /\ UNCHANGED <<bills, reminders, results>>
    /\ RunStep

\* bill.reminders.length > 0 && new Date() - bill.reminders[0].sentAt < 24 h
HasRecentReminderOf(row, at) ==
    row.reminders # <<>> /\ at - row.reminders[1] < TicksPerDay

\* The next bill of the loop: it is passed over, or its reminder is created
\* from what findMany read.
CreateReminder(p) ==
    /\ runs[p].pc = "loop"
    /\ runs[p].i <= Len(runs[p].due)
    /\ IF HasRecentReminderOf(runs[p].due[runs[p].i], now)
       THEN /\ runs' = [runs EXCEPT ![p].i = @ + 1]
            /\ reminders' = reminders
       ELSE /\ runs' = [runs EXCEPT ![p].pc = "created"]
            /\ reminders' =
                  Append(reminders, Reminder(runs[p].due[runs[p].i].bill.id, now))
    /\ UNCHANGED <<bills, results>>
    /\ RunStep

\* After the reminder: updateNextDueDate of the bill as findMany read it, if
\* it is past due, and sentReminders.push.
PushReminder(p) ==
    /\ runs[p].pc = "created"
    /\ bills' = IF runs[p].due[runs[p].i].bill.nextDueDate < now
                THEN [bills EXCEPT ![runs[p].due[runs[p].i].bill.id] =
                         AdvancedBill(runs[p].due[runs[p].i].bill, now)]
                ELSE bills
    /\ runs' = [runs EXCEPT ![p] =
                    [pc |-> "loop", due |-> @.due, i |-> @.i + 1,
                     sent |-> Append(@.sent, runs[p].due[runs[p].i].bill.id)]]
    /\ UNCHANGED <<reminders, results>>
    /\ RunStep

\* return sentReminders
ReturnReminders(p) ==
    /\ runs[p].pc = "loop"
    /\ runs[p].i > Len(runs[p].due)
    /\ results' = [kind |-> "sent", caller |-> p, sent |-> runs[p].sent]
    /\ runs' = [runs EXCEPT ![p] = IdleRun]
    /\ UNCHANGED <<bills, reminders>>
    /\ RunStep

\* A call of sendBillReminders by caller p, step by step.
SendBillRemindersBy(p) ==
    \/ FindDueBills(p)
    \/ CreateReminder(p)
    \/ PushReminder(p)
    \/ ReturnReminders(p)

\* One bill, due around 1 March 2024, and both callers idle.
InitRace ==
    /\ Joined(Users)
    /\ expenses = <<>>
    /\ pc = "idle"
    /\ memberBalances = <<>>
    /\ debtors = <<>>
    /\ creditors = <<>>
    /\ settlements = <<>>
    /\ computed = <<>>
    /\ iters = 0
    /\ response = None
    /\ previous = None
    /\ history = <<>>
    /\ patterns = None
    /\ \E f \in {"weekly", "monthly"}, d \in DueDates :
          bills = <<ManualBill(1, f, d)>>
    /\ reminders = <<>>
    /\ now = StartClock
    /\ results = None
    /\ runs = [p \in Callers |-> IdleRun]
    /\ payments = None
    /\ sessions = None

\* The daily run of the scheduler and the requests of the endpoint, in any
\* interleaving, as time passes.
NextRace ==
    \/ \E p \in Callers : SendBillRemindersBy(p)
    \/ Tick

SpecRace == InitRace /\ [][NextRace]_vars

(***************************************************************************)
(* payment.service.js, payment.controller.js: one share of one user        *)
(***************************************************************************)
\* At most this many payment intents are created for the share.
MaxIntents == 4

\* The share is not paid; no payment intent, no request and no event.
NoPayment ==
    [paid |-> FALSE,        \* expenseShare.paid
     paymentIntentId |-> 0, \* expenseShare.paymentIntentId, 0 for null
     intents |-> <<>>,      \* the status of each payment intent at Stripe
     reading |-> 0,         \* calls of createPaymentIntent that have read the
                            \* share and not yet created their intent
     events |-> {},         \* payment_intent.succeeded events to deliver
     marked |-> 0]          \* updates of the share by markShareAsPaid

\* The steps of the payment requests leave the rest of the state alone.
PayStep ==
    UNCHANGED <<groupVars, expenses, pc, memberBalances, debtors, creditors,
                settlements, computed, iters, response, previous, history,
                patterns, billVars, runs, sessions>>

\* initiatePayment, createPaymentIntent: the share is read and is not paid
\* (a paid share throws, and the request ends with status 500).
ReadShare ==
    /\ ~ payments.paid
    /\ payments.reading + Len(payments.intents) < MaxIntents
    /\ payments' = [payments EXCEPT !.reading = @ + 1]
    /\ PayStep

\* createPaymentIntent: stripe.paymentIntents.create, and the response.
CreateIntent ==
    /\ payments.reading > 0
    /\ payments' = [payments EXCEPT
                        !.reading = @ - 1,
                        !.intents = Append(@, "requires_payment_method")]
    /\ PayStep

\* The user pays intent k with the client secret of the response: Stripe
\* sets it to succeeded and sends a payment_intent.succeeded event.
ConfirmPayment(k) ==
    /\ k \in 1..Len(payments.intents)
    /\ payments.intents[k] = "requires_payment_method"
    /\ payments' = [payments EXCEPT !.intents[k] = "succeeded",
                                    !.events = @ \cup {k}]
    /\ PayStep

\* markShareAsPaid: the intent is retrieved and has succeeded; the share is
\* updated.
MarkShareAsPaid(k) ==
    /\ payments.intents[k] = "succeeded"
    /\ payments' = [payments EXCEPT !.paid = TRUE,
                                    !.paymentIntentId = k,
                                    !.marked = @ + 1,
                                    !.events = @ \ {k}]

\* handleStripeWebhook: the event payment_intent.succeeded of intent k.
HandleStripeWebhook(k) ==
    /\ k \in payments.events
    /\ MarkShareAsPaid(k)
    /\ PayStep

InitPay ==
    /\ Joined(Users)
    /\ expenses = <<>>
    /\ pc = "idle"
    /\ memberBalances = <<>>
    /\ debtors = <<>>
    /\ creditors = <<>>
    /\ settlements = <<>>
    /\ computed = <<>>
    /\ iters = 0
    /\ response = None
    /\ previous = None
    /\ history = <<>>
    /\ patterns = None
    /\ NoBills
    /\ runs = None
    /\ payments = NoPayment
    /\ sessions = None

\* Requests to pay the share, payments at Stripe and webhooks, in any
\* interleaving.
NextPay ==
    \/ ReadShare
    \/ CreateIntent
    \/ \E k \in 1..MaxIntents : ConfirmPayment(k)
    \/ \E k \in 1..MaxIntents : HandleStripeWebhook(k)

SpecPay == InitPay /\ [][NextPay]_vars

(***************************************************************************)
(* auth.controller.js, token.utils.js: the refresh tokens of one user      *)
(***************************************************************************)
\* At most this many refresh tokens are ever stored, and the clock of the
\* sessions advances at most this many days.
MaxTokens == 3
MaxDays == 2

\* The requests that may be in flight together.
Requests == {1, 2}

\* A token lives 15 days.
Lifetime == 15

\* No request in a slot.
NoRequest == [pc |-> "idle", kind |-> "", token |-> 0, response |-> ""]

\* The user logged in 14 days ago: token 1 expires at the end of day 1.
LoggedIn ==
    [rows |-> [t \in {1} |-> 1],   \* refreshToken rows: token :> expiresAt
     next |-> 2,                   \* the next token that generateTokens draws
     clock |-> 0,                  \* new Date(), in days
     reqs |-> [r \in Requests |-> NoRequest],
     refreshed |-> [t \in 1..MaxTokens |-> 0],  \* responses with new tokens
     loggedOut |-> {}]             \* tokens deleted by a logout

\* The steps of the auth requests leave the rest of the state alone.
AuthStep ==
    UNCHANGED <<groupVars, expenses, pc, memberBalances, debtors, creditors,
                settlements, computed, iters, response, previous, history,
                patterns, billVars, runs, payments>>

\* The refreshes in flight that may still generate a token.
Refreshing ==
    Cardinality({r \in Requests : sessions.reqs[r].kind = "refresh"
                                    /\ sessions.reqs[r].pc # "idle"})

\* A request arrives with token t in its body.
Arrives(r, kind, t) ==
    /\ sessions.reqs[r].pc = "idle"
    /\ t \in 1..(sessions.next - 1)
    /\ kind = "refresh" => sessions.next + Refreshing <= MaxTokens
    /\ sessions' = [sessions EXCEPT !.reqs[r] =
            [pc |-> IF kind = "refresh" THEN "verify" ELSE "logout",
             kind |-> kind, token |-> t, response |-> ""]]
    /\ AuthStep

\* The response of request r.
Responds(r, text) ==
    [sessions.reqs[r] EXCEPT !.pc = "idle", !.response = text]

\* prisma.refreshToken.delete never throws.
DeleteThrowsNever(rows, t) == FALSE

\* prisma.refreshToken.delete throws when there is no such row.
DeleteThrows(rows, t) == t \notin DOMAIN rows

\* The rows without that of token t.
RowsWithout(rows, t) == [u \in (DOMAIN rows) \ {t} |-> rows[u]]

\* verifyRefreshToken: findUnique and the test of expiresAt.
VerifyRefreshToken(r) ==
    /\ sessions.reqs[r].pc = "verify"
    /\ sessions' = [sessions EXCEPT !.reqs[r] =
            IF sessions.reqs[r].token \notin DOMAIN sessions.rows
            THEN Responds(r, "Invalid refresh token")
            ELSE IF sessions.clock > sessions.rows[sessions.reqs[r].token]
            THEN [@ EXCEPT !.pc = "expired"]
            ELSE [@ EXCEPT !.pc = "invalidate"]]
    /\ AuthStep

\* verifyRefreshToken: the expired row is deleted, and the error thrown.
DeleteExpired(r) ==
    /\ sessions.reqs[r].pc = "expired"
    /\ sessions' =
          IF DeleteThrows(sessions.rows, sessions.reqs[r].token)
          THEN [sessions EXCEPT !.reqs[r] =
                   Responds(r, "An error occurred during token refresh")]
          ELSE [sessions EXCEPT
                   !.rows = RowsWithout(@, sessions.reqs[r].token),
                   !.reqs[r] = Responds(r, "Refresh token expired")]
    /\ AuthStep

\* invalidateRefreshToken, called by refreshToken.
InvalidateRefreshToken(r) ==
    /\ sessions.reqs[r].pc = "invalidate"
    /\ sessions' =
          IF DeleteThrows(sessions.rows, sessions.reqs[r].token)
          THEN [sessions EXCEPT !.reqs[r] =
                   Responds(r, "An error occurred during token refresh")]
          ELSE [sessions EXCEPT
                   !.rows = RowsWithout(@, sessions.reqs[r].token),
                   !.reqs[r].pc = "generate"]
    /\ AuthStep

\* generateTokens and the response with the new tokens.
GenerateTokens(r) ==
    /\ sessions.reqs[r].pc = "generate"
    /\ sessions' = [sessions EXCEPT
            !.rows = [t \in (DOMAIN @) \cup {sessions.next} |->
                         IF t = sessions.next THEN sessions.clock + Lifetime
                         ELSE @[t]],
            !.next = @ + 1,
            !.refreshed[sessions.reqs[r].token] = @ + 1,
            !.reqs[r] = Responds(r, "tokens")]
    /\ AuthStep

\* refreshToken, step by step.
RefreshToken(r) ==
    \/ VerifyRefreshToken(r)
    \/ DeleteExpired(r)
    \/ InvalidateRefreshToken(r)
    \/ GenerateTokens(r)

\* logout: invalidateRefreshToken and the response.
Logout(r) ==
    /\ sessions.reqs[r].pc = "logout"
    /\ sessions' =
          IF DeleteThrows(sessions.rows, sessions.reqs[r].token)
          THEN [sessions EXCEPT !.reqs[r] =
                   Responds(r, "An error occurred during logout")]
          ELSE [sessions EXCEPT
                   !.rows = RowsWithout(@, sessions.reqs[r].token),
                   !.loggedOut = @ \cup {sessions.reqs[r].token},
                   !.reqs[r] = Responds(r, "Logged out successfully")]
    /\ AuthStep

\* A day passes.
NextDay ==
    /\ sessions.clock < MaxDays
    /\ sessions' = [sessions EXCEPT !.clock = @ + 1]
    /\ AuthStep

InitAuth ==
    /\ Joined(Users)
    /\ expenses = <<>>
    /\ pc = "idle"
    /\ memberBalances = <<>>
    /\ debtors = <<>>
    /\ creditors = <<>>
    /\ settlements = <<>>
    /\ computed = <<>>
    /\ iters = 0
    /\ response = None
    /\ previous = None
    /\ history = <<>>
    /\ patterns = None
    /\ NoBills
    /\ runs = None
    /\ payments = None
    /\ sessions = LoggedIn

\* Refresh and logout requests with any token issued so far, in any
\* interleaving, as the days pass.
NextAuth ==
    \/ \E r \in Requests, k \in {"refresh", "logout"}, t \in 1..MaxTokens :
          Arrives(r, k, t)
    \/ \E r \in Requests : RefreshToken(r)
    \/ \E r \in Requests : Logout(r)
    \/ NextDay

SpecAuth == InitAuth /\ [][NextAuth]_vars

\* At most this many expenses in a history that is analyzed again.
MaxRerun == 4

\* Histories of two recurring expenses of the same amount and category, the
\* description of one contained in that of the other.
InitRerun ==
    /\ Joined(Users)
    /\ expenses = <<>>
    /\ pc = "idle"
    /\ memberBalances = <<>>
    /\ debtors = <<>>
    /\ creditors = <<>>
    /\ settlements = <<>>
    /\ computed = <<>>
    /\ iters = 0
    /\ response = None
    /\ previous = None
    /\ history \in Histories(MaxRerun, {<<"Gym">>, <<"Gym", "Monthly">>},
                              {4999}, {"Entertainment"}, {14, 26})
    /\ patterns = None
    /\ bills = <<>>
    /\ reminders = <<>>
    /\ now = StartClock
    /\ results = None
    /\ Quiet

\* The analysis is run again and again on the same history as time passes.
NextRerun ==
    \/ \E u \in {Users[1], Users[2]} : AnalyzeGroupExpenses(u)
    \/ Tick

SpecRerun == InitRerun /\ [][NextRerun]_vars

(***************************************************************************)
(* Properties                                                              *)
(***************************************************************************)
Abs(k) == IF k < 0 THEN 0 - k ELSE k

RECURSIVE NetTransfers(_, _)
\* What the transfers of the list add to the balance of user u, in cents:
\* the amount of every transfer from u, minus that of every transfer to u.
NetTransfers(list, u) ==
    IF list = <<>> THEN 0
    ELSE (IF Head(list).from = u THEN Head(list).amount ELSE 0)
         - (IF Head(list).to = u THEN Head(list).amount ELSE 0)
         + NetTransfers(Tail(list), u)

SumCents(bals) == SumOf([i \in 1..Len(bals) |-> bals[i].balance.c])

Responded == pc = "idle" /\ response.kind = "dashboard"

LoopEnded == pc = "settle" /\ (debtors = <<>> \/ creditors = <<>>)

\* C1: after a dashboard request on the stored (accepted) expenses, applying
\* every returned transfer to the computed balances leaves every member
\* with |balance| < 0.01.
C1_TransfersSettleEveryone ==
    Responded =>
        \A i \in 1..Len(computed) :
            Abs(computed[i].balance.c
                + NetTransfers(response.settlements, computed[i].user)) < 1

\* C2: the balances computed from the stored (accepted) expenses sum to 0
\* within 0.01, for any number of expenses.
C2_BalancesSumToZero == Abs(SumCents(computed)) <= 1

\* The members with a balance other than zero.
NonZero(bals) == {i \in 1..Len(bals) : bals[i].balance # Zero}

Parties(bals) == Len(Debtors(bals)) + Len(Creditors(bals))

\* C3: the while loop runs at most (debtors + creditors) iterations, and
\* every iteration removes the front debtor or the front creditor.
C3_LoopBounded ==
    /\ iters <= Parties(computed)
    /\ iters + Len(debtors) + Len(creditors) <= Parties(computed)
    /\ (pc = "settle" /\ debtors # <<>> /\ creditors # <<>>) =>
          \/ Settled(DebtorAfter(memberBalances[debtors[1]].balance,
                Amount(memberBalances[debtors[1]], memberBalances[creditors[1]])))
          \/ Settled(CreditorAfter(memberBalances[creditors[1]].balance,
                Amount(memberBalances[debtors[1]], memberBalances[creditors[1]])))

\* A list of three parties whose loop has run twice and returned.
C3_Witness == pc = "idle" /\ iters = 2 /\ Parties(computed) = 3

\* C4: the dashboard response holds each member's balance as computed by
\* calculateMemberBalances.
C4_ResponseHoldsComputedBalances == Responded => response.balances = computed

\* C5: every settlement has an amount above 0.01.
C5_NoTransferOfACent == \A i \in 1..Len(settlements) : settlements[i].amount > 1

\* C6: at most n - 1 transfers for n >= 1 members of non-zero balance.
C6_AtMostNMinusOne ==
    Cardinality(NonZero(computed)) >= 1 =>
        Len(settlements) <= Cardinality(NonZero(computed)) - 1

\* Three members of non-zero balance, settled by two transfers.
C6_Witness ==
    /\ pc = "idle"
    /\ Cardinality(NonZero(computed)) = 3
    /\ Len(settlements) = 2

\* Expense 1: A pays 30.00, split 10/10/10; expense 2: B pays 60.00, split
\* 20/20/20.
ScenarioExpenses ==
    << [amount |-> 3000, paidById |-> "A",
        shares |-> << [userId |-> "A", amount |-> 1000],
                      [userId |-> "B", amount |-> 1000],
                      [userId |-> "C", amount |-> 1000] >>],
       [amount |-> 6000, paidById |-> "B",
        shares |-> << [userId |-> "A", amount |-> 2000],
                      [userId |-> "B", amount |-> 2000],
                      [userId |-> "C", amount |-> 2000] >>] >>

\* The stored expenses are those of the scenario, whoever recorded them.
InScenario ==
    [i \in 1..Len(expenses) |->
        [amount |-> expenses[i].amount, paidById |-> expenses[i].paidById,
         shares |-> expenses[i].shares]] = ScenarioExpenses

BalanceIs(bals, u, k) ==
    \E i \in 1..Len(bals) : bals[i].user = u /\ bals[i].balance = Dbl(k)

\* C7: in the scenario the balances are A = 0, B = 30, C = -30 and the
\* settlements are exactly one transfer from C to B of 30.
C7_Scenario ==
    (InScenario /\ Responded) =>
        /\ BalanceIs(computed, "A", 0)
        /\ BalanceIs(computed, "B", 3000)
        /\ BalanceIs(computed, "C", -3000)
        /\ response.settlements = << [from |-> "C", to |-> "B", amount |-> 3000] >>

C7_Witness == InScenario /\ Responded

\* Members of equal balance are in the order of the list they come from.
KeepsListOrder(list, bals) ==
    \A i, j \in 1..Len(list) :
        (i < j /\ bals[list[i]].balance = bals[list[j]].balance) => list[i] < list[j]

AllZero(xs) == \A i \in 1..Len(xs) : xs[i] = 0

\* C9: a bucket whose gaps are all 0 days is emitted with frequency
\* "weekly" and confidence 100.
C9_ZeroGapsConfidence100 ==
    patterns.kind = "patterns" =>
        \A k \in 1..Len(GroupKeys(history, <<>>)) :
            (/\ Len(Bucket(history, GroupKeys(history, <<>>)[k])) >= 2
             /\ AllZero(Intervals(SortByDate(<<>>,
                    Bucket(history, GroupKeys(history, <<>>)[k])))))
            => \E i \in 1..Len(patterns.list) :
                  /\ patterns.list[i].occurrences =
                        Len(Bucket(history, GroupKeys(history, <<>>)[k]))
                  /\ GroupKey(patterns.list[i]) = GroupKeys(history, <<>>)[k]
                  /\ patterns.list[i].frequency = "weekly"
                  /\ patterns.list[i].confidence = Number(100)

\* C10: every emitted pattern has an integer confidence from 0 to 100.
C10_ConfidenceInRange ==
    patterns.kind = "patterns" =>
        \A i \in 1..Len(patterns.list) :
            /\ ~patterns.list[i].confidence.nan
            /\ patterns.list[i].confidence.value \in 0..100

Emitted == patterns.kind = "patterns"

Keys == GroupKeys(history, <<>>)

\* The day gaps of the k-th bucket, in date order.
GapsOf(k) == Intervals(SortByDate(<<>>, Bucket(history, Keys[k])))

\* The emitted patterns that come from the k-th bucket.
EmittedFor(k) == {i \in 1..Len(patterns.list) : GroupKey(patterns.list[i]) = Keys[k]}

AllEqual(xs, d) == \A i \in 1..Len(xs) : xs[i] = d

ClassOf(d) ==
    IF d <= 8 THEN "weekly"
    ELSE IF d <= 18 THEN "biweekly"
    ELSE IF d <= 35 THEN "monthly"
    ELSE IF d <= 100 THEN "quarterly"
    ELSE "yearly"

\* C11: a bucket whose day gaps all equal the same d > 0 is emitted with
\* confidence 100 and the frequency of d; two occurrences 30 days apart give
\* monthly, 100, occurrences 2, and gaps 7, 7, 7 give weekly, 100.
C11_EqualGapsConfidence100 ==
    Emitted =>
        \A k \in 1..Len(Keys) :
            (Len(GapsOf(k)) >= 1 /\ GapsOf(k)[1] > 0 /\ AllEqual(GapsOf(k), GapsOf(k)[1]))
            => /\ EmittedFor(k) # {}
               /\ \A i \in EmittedFor(k) :
                    /\ patterns.list[i].confidence = Number(100)
                    /\ patterns.list[i].frequency = ClassOf(GapsOf(k)[1])
                    /\ GapsOf(k) = <<30>> =>
                          /\ patterns.list[i].frequency = "monthly"
                          /\ patterns.list[i].occurrences = 2
                    /\ GapsOf(k) = <<7, 7, 7>> => patterns.list[i].frequency = "weekly"

\* The pattern of four occurrences 7 days apart has been emitted.
C11_Witness ==
    /\ Emitted
    /\ Len(Keys) = 1
    /\ GapsOf(1) = <<7, 7, 7>>
    /\ Len(patterns.list) = 1

\* C12: the frequency is weekly for an average gap <= 8, biweekly for
\* 8 < avg <= 18, monthly for 18 < avg <= 35, quarterly for 35 < avg <= 100
\* and yearly above 100 (avg = total / n, compared as total and 8n, ...).
C12_FrequencyThresholds ==
    Emitted =>
        \A k \in 1..Len(Keys) : \A i \in EmittedFor(k) :
            /\ patterns.list[i].frequency
                  \in {"weekly", "biweekly", "monthly", "quarterly", "yearly"}
            /\ patterns.list[i].frequency = "weekly"
                  <=> SumOf(GapsOf(k)) <= 8 * Len(GapsOf(k))
            /\ patterns.list[i].frequency = "biweekly"
                  <=> /\ SumOf(GapsOf(k)) > 8 * Len(GapsOf(k))
                      /\ SumOf(GapsOf(k)) <= 18 * Len(GapsOf(k))
            /\ patterns.list[i].frequency = "monthly"
                  <=> /\ SumOf(GapsOf(k)) > 18 * Len(GapsOf(k))
                      /\ SumOf(GapsOf(k)) <= 35 * Len(GapsOf(k))
            /\ patterns.list[i].frequency = "quarterly"
                  <=> /\ SumOf(GapsOf(k)) > 35 * Len(GapsOf(k))
                      /\ SumOf(GapsOf(k)) <= 100 * Len(GapsOf(k))
            /\ patterns.list[i].frequency = "yearly"
                  <=> SumOf(GapsOf(k)) > 100 * Len(GapsOf(k))

\* A pattern whose average gap is exactly 18 days (gaps 36 and 0) is emitted.
C12_Witness ==
    /\ Emitted
    /\ Len(Keys) = 1
    /\ GapsOf(1) = <<36, 0>>
    /\ Len(patterns.list) = 1
    /\ patterns.list[1].frequency = "biweekly"

\* The two expenses of the example are rows i and j of the history.
TheExample(i, j) ==
    /\ history[i].amount = 4999
    /\ history[i].description = <<"Netflix", "Monthly", "Subscription">>
    /\ history[j].amount = 5001
    /\ history[j].description = <<"Netflix", "Monthly", "Charge">>

InBucket(i, k) == GroupKey(history[i]) = Keys[k]

\* C13: expenses of 49.99 "Netflix Monthly Subscription" and 50.01 "Netflix
\* Monthly Charge" are placed in the same bucket.
C13_ExampleSharesBucket ==
    Emitted =>
        \A i, j \in 1..Len(history) :
            TheExample(i, j) => \E k \in 1..Len(Keys) : InBucket(i, k) /\ InBucket(j, k)

\* C14: every pattern has occurrences >= 2 and comes from one bucket, whose
\* size is its occurrences; a bucket of 2 or more expenses yields exactly one
\* pattern, a smaller one none.
C14_OnePatternPerBucketOfTwo ==
    Emitted =>
        /\ \A i \in 1..Len(patterns.list) :
              /\ patterns.list[i].occurrences >= 2
              /\ \E k \in 1..Len(Keys) : i \in EmittedFor(k)
        /\ \A k \in 1..Len(Keys) :
              IF Len(Bucket(history, Keys[k])) >= 2
              THEN /\ Cardinality(EmittedFor(k)) = 1
                   /\ \A i \in EmittedFor(k) :
                         patterns.list[i].occurrences = Len(Bucket(history, Keys[k]))
              ELSE EmittedFor(k) = {}

\* A history with a bucket of one expense and a bucket of three.
C14_Witness ==
    /\ Emitted
    /\ Len(Keys) = 2
    /\ Len(Bucket(history, Keys[1])) = 1
    /\ Len(Bucket(history, Keys[2])) = 3
    /\ Len(patterns.list) = 1

\* a >= b on JavaScript numbers: false when either is NaN.
AtLeast(a, b) == ~a.nan /\ ~b.nan /\ a.value >= b.value

\* C16: in the returned list every pattern's confidence is >= that of the
\* pattern after it.
C16_SortedByConfidence ==
    Emitted =>
        \A i \in 1..(Len(patterns.list) - 1) :
            AtLeast(patterns.list[i].confidence, patterns.list[i + 1].confidence)

\* createdAt of the latest expense of the k-th bucket.
LatestOf(k) ==
    SortByDate(<<>>, Bucket(history, Keys[k]))[Len(Bucket(history, Keys[k]))].createdAt

\* Calendar months from January of year 0 to the month of tick t.
MonthIndex(t) == 12 * DateOf(t).year + DateOf(t).month

\* nextDueDate `next` is one period of `frequency` after `last`.
OnePeriodAfter(last, next, frequency) ==
    /\ frequency = "weekly" => next = last + 7 * TicksPerDay
    /\ frequency = "biweekly" => next = last + 14 * TicksPerDay
    /\ frequency = "monthly" => MonthIndex(next) = MonthIndex(last) + 1
    /\ frequency = "quarterly" => MonthIndex(next) = MonthIndex(last) + 3
    /\ frequency = "yearly" => MonthIndex(next) = MonthIndex(last) + 12

\* C15: nextDueDate is the latest occurrence advanced by one period: 7 or 14
\* days, or into the calendar month 1, 3 or 12 months later.
C15_NextDueDateOnePeriodLater ==
    Emitted =>
        \A k \in 1..Len(Keys) : \A i \in EmittedFor(k) :
            OnePeriodAfter(LatestOf(k), patterns.list[i].nextDueDate,
                           patterns.list[i].frequency)

Named == results.kind = "name"

RECURSIVE KeptOf(_)
KeptOf(ps) == IF ps = <<>> THEN <<>> ELSE Head(ps).kept \o KeptOf(Tail(ps))

IsLower(ch) == \E i \in 1..Len(Lowers) : Lowers[i] = ch

IsUpper(ch) == \E i \in 1..Len(Uppers) : Uppers[i] = ch

\* Every letter that starts a word is upper case, every other letter lower
\* case, and the name neither starts nor ends with a space.
TitleCased(name) ==
    /\ name # <<>> => name[1] # " " /\ name[Len(name)] # " "
    /\ \A i \in 1..Len(name) :
          IF i = 1 \/ name[i - 1] = " " THEN ~IsLower(name[i]) ELSE ~IsUpper(name[i])

ExampleDescription ==
    <<"P", "a", "y", "m", "e", "n", "t", " ", "t", "o", " ", "N", "e", "t", "f", "l", "i", "x", " ", "#", "4", "8", "2", "1">>

\* C20: the name is the description without its noise tokens, trimmed and
\* title-cased; "Payment to Netflix #4821" gives "Netflix"; a description of
\* which nothing is left is returned unchanged.
C20_BillNameStripsNoise ==
    Named =>
        /\ results.description = ExampleDescription =>
              results.billName = <<"N", "e", "t", "f", "l", "i", "x">>
        /\ \A ps \in PieceLists :
              TextOf(ps) = results.description =>
                  IF Trim(KeptOf(ps)) = <<>>
                  THEN results.billName = results.description
                  ELSE /\ results.billName = TitleCase(Trim(KeptOf(ps)))
                       /\ TitleCased(results.billName)

\* The name of the example has been generated.
C20_Witness == Named /\ results.description = ExampleDescription

\* Nothing is left of the description, which is returned as it is.
C20_WitnessFallback ==
    /\ Named
    /\ results.description = <<"I", "N", "V", "O", "I", "C", "E", " ", "b", "i", "l", "l">>
    /\ results.billName = results.description

Analyzed70 == results.kind = "analysis"

\* The patterns returned by the detector that have (have not) confidence >= 70.
Confident ==
    {i \in 1..Len(patterns.list) :
        ~patterns.list[i].confidence.nan /\ patterns.list[i].confidence.value >= 70}

Unconfident == (1..Len(patterns.list)) \ Confident

SameBill(entry, pattern) ==
    entry.description = pattern.description /\ entry.amount = pattern.amount

InSaved(i) == \E j \in 1..Len(results.saved) : SameBill(results.saved[j], patterns.list[i])

InDetected(i) ==
    \E j \in 1..Len(results.detected) : SameBill(results.detected[j], patterns.list[i])

InStore(i) == \E j \in 1..Len(bills) : SameBill(bills[j], patterns.list[i])

\* C17: every pattern is in exactly one result list, in saved (as a stored
\* bill) iff its confidence is >= 70; a pattern below 70 is only in detected
\* and no bill is written for it.
C17_SavedIffConfident ==
    Analyzed70 =>
        /\ Len(results.saved) = Cardinality(Confident)
        /\ Len(results.detected) = Cardinality(Unconfident)
        /\ Len(bills) = Cardinality(Confident)
        /\ \A i \in Confident : InSaved(i) /\ InStore(i) /\ ~InDetected(i)
        /\ \A i \in Unconfident : InDetected(i) /\ ~InSaved(i) /\ ~InStore(i)

\* An analysis that saved a pattern of confidence exactly 70 and only
\* suggested another one.
C17_Witness ==
    /\ Analyzed70
    /\ Len(results.saved) = 1
    /\ Len(results.detected) = 1
    /\ \E i \in Confident : patterns.list[i].confidence = Number(70)

\* C18: every bill for which a reminder has just been recorded has its due
\* date one period of its frequency after the due date it had.
C18_ReminderAdvancesDueDate ==
    results.kind = "reminders" =>
        \A j \in 1..Len(results.sent) :
            OnePeriodAfter(results.sent[j].bill.nextDueDate,
                           bills[results.sent[j].bill.id].nextDueDate,
                           results.sent[j].bill.frequency)

RECURSIVE SumShares(_)
\* The sum of the cents of a list of shares.
SumShares(shares) ==
    IF shares = <<>> THEN 0 ELSE Head(shares).amount + SumShares(Tail(shares))

\* The shares of a stored expense sum to its amount within one cent.
SharesMatch(expense) ==
    /\ SumShares(expense.shares) - expense.amount <= 1
    /\ expense.amount - SumShares(expense.shares) <= 1

\* C19: after any sequence of createExpense and updateExpense the shares of
\* every stored expense sum to its amount within 0.01.
C19_SharesSumToAmount ==
    \A i \in 1..Len(expenses) : SharesMatch(expenses[i])

\* The references of list are those of the members of bals whose balance is
\* negative (or positive), each once.
RefersTo(list, bals, negative) ==
    /\ \A i \in 1..Len(bals) :
          Selected(bals[i].balance, negative) <=>
              \E j \in 1..Len(list) : list[j] = i
    /\ \A j, k \in 1..Len(list) : j # k => list[j] # list[k]

\* No member of list has a balance further from zero than one before it.
FurthestFirst(list, bals) ==
    \A j, k \in 1..Len(list) :
        j < k => ~ DblLt(DblAbs(bals[list[j]].balance),
                         DblAbs(bals[list[k]].balance))

\* The two lists as the loop finds them.
ListsAtStart ==
    /\ RefersTo(debtors, memberBalances, TRUE)
    /\ RefersTo(creditors, memberBalances, FALSE)
    /\ FurthestFirst(debtors, memberBalances)
    /\ FurthestFirst(creditors, memberBalances)

\* min(|owes|, due)
Least(owes, due) == IF DblLt(due, DblAbs(owes)) THEN due ELSE DblAbs(owes)

\* An iteration that pairs members d and c, who owe and are due the given
\* balances, for amount.
Pairs(d, c, owes, due, amount) ==
    /\ memberBalances'[d].balance = DblAdd(owes, amount)
    /\ memberBalances'[c].balance = DblSub(due, amount)
    /\ \A i \in 1..Len(memberBalances) :
          i \notin {d, c} => memberBalances'[i] = memberBalances[i]
    /\ settlements' \in
          {settlements,
           Append(settlements, [from |-> memberBalances[d].user,
                                to |-> memberBalances[c].user,
                                amount |-> ToFixed2(amount).c])}
    /\ debtors' \in {debtors, Tail(debtors)}
    /\ creditors' \in {creditors, Tail(creditors)}
    /\ DblAbs(owes) = due =>
          debtors' = Tail(debtors) /\ creditors' = Tail(creditors)

PairsFront ==
    Pairs(debtors[1], creditors[1], memberBalances[debtors[1]].balance,
          memberBalances[creditors[1]].balance,
          Least(memberBalances[debtors[1]].balance,
                memberBalances[creditors[1]].balance))

\* C21: the loop starts with the debtors (balance < 0) most negative first
\* and the creditors (balance > 0) most positive first; every iteration
\* pairs the front debtor with the front creditor for min(|debtor balance|,
\* creditor balance), keeps the order of both lists, and removes both
\* members when the two magnitudes are equal.
C21_GreedyPairing ==
    [][/\ (pc = "settle" /\ iters = 0) => ListsAtStart
       /\ iters' = iters + 1 => PairsFront]_vars

\* After a partial settlement the front debtor owes less than the one
\* behind it and is still at the front.
C21_Witness ==
    /\ pc = "settle"
    /\ iters > 0
    /\ Len(debtors) > 1
    /\ DblLt(DblAbs(memberBalances[debtors[1]].balance),
             DblAbs(memberBalances[debtors[2]].balance))

\* The cents that the members still in the two lists carry.
Residual ==
    SumOf([j \in 1..Len(debtors) |-> memberBalances[debtors[j]].balance.c])
    + SumOf([j \in 1..Len(creditors) |-> memberBalances[creditors[j]].balance.c])

\* C22: on any balance list every iteration leaves the sum of the working
\* balances unchanged, and when the loop has ended one of the two lists is
\* empty and the members left in the other carry the sum of the input
\* balances.
C22_ResidualIsInputSum ==
    /\ SumCents(memberBalances) = SumCents(computed)
    /\ (pc = "idle" \/ LoopEnded) =>
          /\ debtors = <<>> \/ creditors = <<>>
          /\ Residual = SumCents(computed)

\* b is zero or has the sign and at most the magnitude of the input a.
Between(a, b) ==
    IF DblLt(a, Zero) THEN ~ DblLt(Zero, b) /\ ~ DblLt(b, a)
    ELSE IF DblLt(Zero, a) THEN ~ DblLt(b, Zero) /\ ~ DblLt(a, b)
    ELSE b = a

\* The input balance of user u is negative (or positive).
InputOf(u, negative) ==
    \E i \in 1..Len(computed) :
        computed[i].user = u /\ Selected(computed[i].balance, negative)

\* C23: every transfer goes from a member whose input balance was negative
\* to another member whose input balance was positive, and at every step
\* the working balance of a member lies between zero and the input balance,
\* so that what was taken from a debtor, or given to a creditor, is at most
\* the magnitude of the input balance.
C23_NoOvershoot ==
    /\ \A j \in 1..Len(settlements) :
          /\ InputOf(settlements[j].from, TRUE)
          /\ InputOf(settlements[j].to, FALSE)
          /\ settlements[j].from # settlements[j].to
    /\ \A i \in 1..Len(memberBalances) :
          /\ memberBalances[i].user = computed[i].user
          /\ Between(computed[i].balance, memberBalances[i].balance)

\* Two transfers from the same debtor, who is settled by the second.
C23_Witness ==
    /\ Len(settlements) = 2
    /\ settlements[1].from = settlements[2].from
    /\ settlements[1].to # settlements[2].to
    /\ debtors = <<>>

\* C24: after any sequence of createExpense, joinGroupByCode,
\* acceptInvitation and removeMember, the balances that getGroupBalances
\* reports for the current members sum to 0 within 0.01.
C24_ReportedBalancesSumToZero ==
    response.kind = "balances" => Abs(SumCents(response.balances)) <= 1

\* C27: a group that has a member has a member with the role "admin".
C27_GroupKeepsAnAdmin ==
    members # <<>> => \E i \in 1..Len(roles) : roles[i] = "admin"

\* amount / n rounded to the cent, in cents.
Round2(amount, n) == (2 * amount + n) \div (2 * n)

\* One share per member, each strictly positive, round2(amount / n) for
\* every member but the first, who receives the rest of the amount.
EquallyShared(amount, shares, memberIds) ==
    /\ Len(shares) = Len(memberIds)
    /\ \A i \in 1..Len(shares) :
          /\ shares[i].userId = memberIds[i]
          /\ shares[i].amount > 0
          /\ i > 1 => shares[i].amount = Round2(amount, Len(memberIds))
    /\ shares[1].amount =
          amount - (Len(memberIds) - 1) * Round2(amount, Len(memberIds))

\* C25: createExpense with splitType "equal" creates exactly one share per
\* member, every share strictly positive, round2(amount / n) for all
\* members but the first, and that plus the rounding remainder for the
\* first.
C25_EqualSplitShares ==
    [][\A u, q \in UserSet, a \in CentAmounts \cup WholeAmounts :
          CreateExpense(u, a, q, "equal", <<>>) =>
              EquallyShared(a, expenses'[Len(expenses')].shares, members)]_vars

\* Bill b is bill a but for its nextDueDate, frequency and updatedAt.
SameBillUpdated(a, b) ==
    b = [a EXCEPT !.nextDueDate = b.nextDueDate, !.frequency = b.frequency,
                  !.updatedAt = b.updatedAt]

\* C26: once the analysis has run on a history, running it again creates no
\* recurring bill: it changes nothing of the stored bills but their
\* nextDueDate, frequency and updatedAt.
C26_SecondAnalysisCreatesNoBill ==
    [][results.kind = "analysis" =>
          /\ Len(bills') = Len(bills)
          /\ \A i \in 1..Len(bills) : SameBillUpdated(bills[i], bills'[i])]_vars

\* Two bills were saved by the first analysis and a later one has updated
\* only one of them.
C26_Witness ==
    /\ results.kind = "analysis"
    /\ Len(bills) = 2
    /\ Len(results.saved) = 2
    /\ bills[1].updatedAt # bills[2].updatedAt

\* The reminder that a step records is for a bill without a reminder sent
\* less than 24 hours earlier and due at most 3 days from now.
RecordsInTime(row) ==
    /\ ~ HasRecentReminder(reminders, row.billId, now)
    /\ bills[row.billId].nextDueDate <= ThreeDaysFrom(now)

\* C28: in every interleaving of the scheduler's run and the endpoint's
\* request, a reminder is recorded only for a bill that has no reminder sent
\* less than 24 hours earlier and whose nextDueDate is at most 3 days in
\* the future.
C28_NoReminderTwiceInADay ==
    [][reminders' # reminders => RecordsInTime(reminders'[Len(reminders')])]_vars

\* The payment intents of the share that have succeeded.
Succeeded == {k \in 1..Len(payments.intents) : payments.intents[k] = "succeeded"}

\* C29: in every interleaving of initiatePayment requests and
\* payment_intent.succeeded webhooks, at most one payment intent of a share
\* succeeds and markShareAsPaid is applied to the share at most once.
C29_ShareIsPaidOnce ==
    /\ Cardinality(Succeeded) <= 1
    /\ payments.marked <= 1


\* Token t was used up: a refresh returned new tokens for it, or a logout
\* deleted it.
UsedUp(t) == sessions.refreshed[t] > 0 \/ t \in sessions.loggedOut

\* No token has returned new tokens to more than one request, and a token
\* that was used up is not stored.
SingleUse ==
    \A t \in 1..MaxTokens :
        /\ sessions.refreshed[t] <= 1
        /\ UsedUp(t) => t \notin DOMAIN sessions.rows

\* A request that presents a used-up token is answered "Invalid refresh
\* token", and no refresh returns new tokens for it.
Rejects ==
    /\ \A t \in 1..MaxTokens :
          UsedUp(t) => sessions'.refreshed[t] = sessions.refreshed[t]
    /\ \A r \in Requests :
          (/\ sessions.reqs[r].pc = "verify"
           /\ sessions'.reqs[r].pc # "verify"
           /\ UsedUp(sessions.reqs[r].token))
          => sessions'.reqs[r].response = "Invalid refresh token"

\* A request that presents a stored token after its expiresAt does not go
\* on to return tokens, and the request that deletes the expired row
\* answers "Refresh token expired".
ExpiredIsDeleted ==
    \A r \in Requests :
        /\ (/\ sessions.reqs[r].pc = "verify"
            /\ sessions'.reqs[r].pc # "verify"
            /\ sessions.reqs[r].token \in DOMAIN sessions.rows
            /\ sessions.clock > sessions.rows[sessions.reqs[r].token])
           => sessions'.reqs[r].pc = "expired"
        /\ (/\ sessions.reqs[r].pc = "expired"
            /\ sessions'.reqs[r].pc = "idle")
           => /\ sessions.reqs[r].token \notin DOMAIN sessions'.rows
              /\ sessions'.reqs[r].response # "tokens"
              /\ sessions.reqs[r].token \in DOMAIN sessions.rows
                   => sessions'.reqs[r].response = "Refresh token expired"

====
